---- MODULE Spec2Model ----
(***************************************************************************)
(* State-machine model of the OCPP 1.6J central system in src/backend:     *)
(* the connection registry and WebSocket adapter (api_routes.py), the      *)
(* inbound handlers, outbound command wrappers and post-transaction tasks  *)
(* (ocpp_handler.py) and the charger store                                 *)
(* (charger_store.py).                                                     *)
(*                                                                         *)
(* Spec     : session layer - registry, adapters, outbound commands.       *)
(* SpecCall : the outbound commands of one connected charger.              *)
(* SpecTx   : charger store - transactions and connector status.           *)
(* SpecAuth : inbound handlers and the id-tag table.                       *)
(* SpecList : the send_local_list endpoint, version counter and mirror.    *)
(* SpecLog  : the per-charger log, clear_logs and get_logs.                *)
(* SpecLogCap : the per-charger log around its cap.                        *)
(* SpecRes  : reserve_now, cancel_reservation and the reservation list.    *)
(* SpecSched : the receive loop and the post-transaction vendor tasks.     *)
(* SpecProfile : charging profiles - set, clear and list.                  *)
(* SpecValid : the endpoints that check an argument (reset, trigger).      *)
(* SpecConsume : a StartTransaction on a reserved connector.               *)
(* SpecFault : storage errors in the receive path and in a handler.        *)
(* SpecStatus : the stored charger status and the charger list.            *)
(***************************************************************************)
EXTENDS Integers, Sequences, FiniteSets, TLC

\* ---------------------------------------------------------------- bounds
MaxSessions == 2      \* WebSocket connections opened during a run
MaxCalls == 2         \* operator requests issued during a run
MaxResId == 1         \* reservation ids an operator may use
MaxTime == 2          \* wall-clock seconds that pass during a run (SpecTx)
MaxConnector == 2     \* connector indices reported by the charger (SpecTx)
MaxListCalls == 2     \* SendLocalList requests issued during a run (SpecAuth)
MaxLogs == 3          \* add_log calls during a run (SpecLog)
MaxStarts == 1        \* StartTransaction requests through the receive loop (SpecSched)
MaxProfileId == 1     \* charging profile ids an operator may use (SpecProfile)
MaxStackLevel == 1    \* stack levels an operator may use (SpecProfile)
MaxProfileOps == 2    \* accepted profile commands during a run (SpecProfile)

Chargers == {"CP1"}
Sessions == 1..MaxSessions
Calls == 1..MaxCalls
ResIds == 1..MaxResId
Connectors == 1..MaxConnector
NoSession == 0
NoCall == 0
NoTx == 0

\* Operator endpoints that are modelled, one per shape of endpoint code.
TypedKinds == {"RemoteStart", "RemoteStop", "ReserveNow", "CancelReservation"}
Kinds == TypedKinds \cup {"RawMessage", "MsilDataTransfer"}
ReplyTypes == {"Accepted", "Rejected", "CallError"}

VARIABLES
    charge_points,   \* api_routes.charge_points: charger id -> session (0 = no key)
    dbChargers,      \* charger ids that have a row in the chargers table
    sessState,       \* websocket_endpoint of a connection: "new", "running", "ended"
    sessCp,          \* charge_point_id of a connection
    adapterClosed,   \* WebSocketAdapter._closed
    callLock,        \* per session: the call holding the send serializer
    pending,         \* pending-call table: uids (calls) that have a waiter
    inSend,          \* per session: tasks suspended in WebSocketAdapter.send (send_text)
    written,         \* calls whose CALL frame reached the socket
    dropped,         \* calls whose frame WebSocketAdapter.send skipped (adapter closed)
    replied,         \* call -> reply type the charger sent for its uid ("none" if none)
    ignored,         \* uids of replies discarded for lack of a matching waiter
    callKind, callCp, callSess, callRes,
    callPc,          \* "idle", "lockwait", "sending", "waiting", "done"
    callOutcome,     \* how the command ended
    callHttp,        \* HTTP status returned to the operator (0 = none yet)
    resolveCount,    \* how many times the waiter of a call was resolved
    reservations,    \* charger -> reservation ids stored
    chStatus,        \* Charger.status
    current_transaction, \* Charger.current_transaction (0 = None)
    connector_status,    \* Charger.connector_status: charger -> entries in key order
    now,             \* wall clock, whole seconds
    txIssued,        \* charger -> transaction id -> times StartTransaction returned it (2 = more than once)
    inboundReply,    \* charger -> what the last inbound handler answered
    idTagTable,      \* id_tags table: tag -> stored status ("absent" = no row)
    local_auth_list_version, \* ChargerStore.local_auth_list_version
    listPc,          \* send_local_list request: "idle", "waiting", "done"
    listVersion,     \* list_version the request sent (0 = none)
    listItems,       \* local_authorization_list of the request
    listForce,       \* force_store_locally of the request
    listResp,        \* what the wrapper returned ("none" = not yet)
    logs,            \* Charger.logs: charger -> entries in list order
    logs_cleared_at, \* Charger.logs_cleared_at (0 = None)
    logCount,        \* charger -> add_log calls that reached its row
    logsReturned,    \* charger -> result of the last get_logs
    latest_status,   \* charger -> what get_chargers' scan of Charger.logs finds
    clearedCount,    \* charger -> number of add_log calls that preceded the last clear_logs
    reservationsReturned, \* charger -> answer of the last GET /api/reservations
    vendorEnabled,   \* charger -> vendor packets its stored settings enable
    rxPc,            \* receive loop of a session: "recv", "lockwait", "sending" (reply)
    rxStart,         \* the StartTransaction whose reply the loop is sending (0 = another reply)
    startCount,      \* StartTransaction requests handled
    startTx,         \* StartTransaction -> transaction id it returned
    startSess,       \* StartTransaction -> session that handled it
    replyWritten,    \* StartTransaction -> its CALLRESULT is on the wire
    jobs,            \* StartTransaction -> vendor -> post-transaction task
    callTx,          \* call -> transaction id its DataTransfer carries (0 = none)
    callJob,         \* call -> StartTransaction whose task sends it (0 = operator request)
    msilWarned,       \* calls for which _send_msil_packet logged the OCPP violation
    charging_profiles, \* charger -> charging profiles its row holds
    profileOps,       \* charger -> accepted SetChargingProfile / ClearChargingProfile commands, in order
    profilesReturned, \* charger -> last answer of GET /api/charging_profiles
    idTagHttp        \* HTTP status of the last POST or DELETE /api/idtags (0 = none yet)

sessVars == <<charge_points, dbChargers, sessState, sessCp, adapterClosed>>
wireVars == <<callLock, pending, inSend, written, dropped, replied, ignored>>
callVars == <<callKind, callCp, callSess, callRes, callPc, callOutcome, callHttp,
              resolveCount>>
authVars == <<idTagTable, local_auth_list_version, listPc, listVersion, listItems,
              listForce, listResp>>
logVars == <<logs, logs_cleared_at, logCount, logsReturned, latest_status, clearedCount>>
schedVars == <<vendorEnabled, rxPc, rxStart, startCount, startTx, startSess, replyWritten,
               jobs, callTx, callJob, msilWarned>>
profVars == <<charging_profiles, profileOps, profilesReturned>>
moreVars == <<reservationsReturned, schedVars, profVars, idTagHttp>>
storeVars == <<chStatus, current_transaction, connector_status, now, txIssued, inboundReply,
               authVars, logVars, moreVars>>
vars == <<sessVars, wireVars, callVars, reservations, storeVars>>

\* Values the charger reports (SpecTx).
Statuses == {"Available", "Charging"}
IdTags == {"TAG1"}

\* Id tags of the authorization model (SpecAuth): one tag of 4 characters and
\* one of 21, beyond the 20 characters OCPP 1.6 allows.
LongTag == "TAG_OF_21_CHARACTERS_"
AuthTags == {"TAG1", LongTag}
TagLength(tag) == IF tag = LongTag THEN 21 ELSE 4
TagStatuses == {"Accepted", "Blocked", "Expired"}
ListCalls == 1..MaxListCalls

\* The post-transaction tasks on_start_transaction creates, and the packets
\* their settings can enable.
Starts == 1..MaxStarts
Vendors == {"Jio_BP", "MSIL", "CZ"}
Messages == {"Stop_Energy", "Stop_Time", "MsilDataTransfer", "CZ_AutoStop"}
Job(pc, msg, k) == [pc |-> pc, msg |-> msg, call |-> k]
NoJob == Job("none", "none", NoCall)

\* The answer of an inbound handler: the action, CALLRESULT or CALLERROR, and
\* the payload fields the model follows (0 and "none" when the payload has none).
Reply(action, kind, tx, status) ==
    [action |-> action, kind |-> kind, transaction_id |-> tx, status |-> status]

NoReply == Reply("none", "none", NoTx, "none")

\* What the scan of get_chargers keeps of Charger.logs: the status and the
\* timestamp of the entry it takes for the latest StatusNotification.
StatusLog(ts, status) == [timestamp |-> ts, status |-> status]

NoStatusLog == StatusLog(0, "none")

\* The answer of a read endpoint: HTTP status (0 = not asked yet) and the
\* reservations in its body.
Answer(http, res) == [http |-> http, reservations |-> res]

NoAnswer == Answer(0, {})

\* The answer of GET /api/charging_profiles: HTTP status (0 = not asked yet)
\* and the profiles in its body.
ProfileAnswer(http, profiles) == [http |-> http, profiles |-> profiles]

NoProfileAnswer == ProfileAnswer(0, {})

Init ==
    /\ charge_points = [c \in Chargers |-> NoSession]
    /\ dbChargers = {}
    /\ sessState = [s \in Sessions |-> "new"]
    /\ sessCp = [s \in Sessions |-> "CP1"]
    /\ adapterClosed = [s \in Sessions |-> FALSE]
    /\ callLock = [s \in Sessions |-> NoCall]
    /\ pending = {}
    /\ inSend = [s \in Sessions |-> {}]
    /\ written = {}
    /\ dropped = {}
    /\ replied = [k \in Calls |-> "none"]
    /\ ignored = {}
    /\ callKind = [k \in Calls |-> "none"]
    /\ callCp = [k \in Calls |-> "CP1"]
    /\ callSess = [k \in Calls |-> NoSession]
    /\ callRes = [k \in Calls |-> 1]
    /\ callPc = [k \in Calls |-> "idle"]
    /\ callOutcome = [k \in Calls |-> "none"]
    /\ callHttp = [k \in Calls |-> 0]
    /\ resolveCount = [k \in Calls |-> 0]
    /\ reservations = [c \in Chargers |-> {}]
    /\ chStatus = [c \in Chargers |-> "Available"]
    /\ current_transaction = [c \in Chargers |-> NoTx]
    /\ connector_status = [c \in Chargers |-> <<>>]
    /\ now = 1
    /\ txIssued = [c \in Chargers |-> [tx \in 1..MaxTime |-> 0]]
    /\ inboundReply = [c \in Chargers |-> NoReply]
    /\ idTagTable = [t \in AuthTags |-> "absent"]
    /\ local_auth_list_version = 0
    /\ listPc = [k \in ListCalls |-> "idle"]
    /\ listVersion = [k \in ListCalls |-> 0]
    /\ listItems = [k \in ListCalls |-> <<>>]
    /\ listForce = [k \in ListCalls |-> FALSE]
    /\ listResp = [k \in ListCalls |-> "none"]
    /\ logs = [c \in Chargers |-> <<>>]
    /\ logs_cleared_at = [c \in Chargers |-> 0]
    /\ logCount = [c \in Chargers |-> 0]
    /\ logsReturned = [c \in Chargers |-> <<>>]
    /\ latest_status = [c \in Chargers |-> NoStatusLog]
    /\ clearedCount = [c \in Chargers |-> 0]
    /\ reservationsReturned = [c \in Chargers |-> NoAnswer]
    /\ vendorEnabled = [c \in Chargers |-> {}]
    /\ rxPc = [s \in Sessions |-> "recv"]
    /\ rxStart = [s \in Sessions |-> 0]
    /\ startCount = 0
    /\ startTx = [i \in Starts |-> NoTx]
    /\ startSess = [i \in Starts |-> NoSession]
    /\ replyWritten = [i \in Starts |-> FALSE]
    /\ jobs = [i \in Starts |-> [v \in Vendors |-> NoJob]]
    /\ callTx = [k \in Calls |-> NoTx]
    /\ callJob = [k \in Calls |-> 0]
    /\ msilWarned = {}
    /\ charging_profiles = [c \in Chargers |-> {}]
    /\ profileOps = [c \in Chargers |-> <<>>]
    /\ profilesReturned = [c \in Chargers |-> NoProfileAnswer]
    /\ idTagHttp = 0

\* ------------------------------------------------------------- registry

\* websocket_endpoint up to charge_point.start(): the charger row is ensured,
\* the socket is accepted, and the new ChargePoint is stored under its id.
\* Whatever the registry held under that id is overwritten; nothing is closed.
Connect(s, c) ==
    /\ sessState[s] = "new"
    /\ \A t \in Sessions : t < s => sessState[t] # "new"
    /\ sessState' = [sessState EXCEPT ![s] = "running"]
    /\ sessCp' = [sessCp EXCEPT ![s] = c]
    /\ dbChargers' = dbChargers \cup {c}
    /\ charge_points' = [charge_points EXCEPT ![c] = s]
    /\ UNCHANGED <<adapterClosed, wireVars, callVars, reservations, storeVars>>

\* The registry after the cleanup of a connection for charger c, held by session s:
\* "if charge_point_id in charge_points: del charge_points[charge_point_id]".
CleanupRegistry(reg, c, s) == [reg EXCEPT ![c] = NoSession]

\* The peer closes the socket: WebSocketAdapter.recv marks the adapter closed and
\* raises, charge_point.start() ends, and the finally block of websocket_endpoint
\* runs (ws_adapter.close() finds the adapter closed already).
Disconnect(s) ==
    /\ sessState[s] = "running"
    /\ sessState' = [sessState EXCEPT ![s] = "ended"]
    /\ adapterClosed' = [adapterClosed EXCEPT ![s] = TRUE]
    /\ charge_points' = CleanupRegistry(charge_points, sessCp[s], s)
    /\ UNCHANGED <<dbChargers, sessCp, wireVars, callVars, reservations, storeVars>>

\* DELETE /api/chargers/{id}: the registry key and the row are removed; the
\* connection itself is left as it is.
DeleteCharger(c) ==
    /\ c \in dbChargers
    /\ charge_points' = [charge_points EXCEPT ![c] = NoSession]
    /\ dbChargers' = dbChargers \ {c}
    /\ reservations' = [reservations EXCEPT ![c] = {}]
    /\ chStatus' = [chStatus EXCEPT ![c] = "Available"]
    /\ current_transaction' = [current_transaction EXCEPT ![c] = NoTx]
    /\ connector_status' = [connector_status EXCEPT ![c] = <<>>]
    /\ txIssued' = [txIssued EXCEPT ![c] = [tx \in 1..MaxTime |-> 0]]
    /\ logs' = [logs EXCEPT ![c] = <<>>]
    /\ logs_cleared_at' = [logs_cleared_at EXCEPT ![c] = 0]
    /\ logCount' = [logCount EXCEPT ![c] = 0]
    /\ latest_status' = [latest_status EXCEPT ![c] = NoStatusLog]
    /\ clearedCount' = [clearedCount EXCEPT ![c] = 0]
    /\ UNCHANGED <<sessState, sessCp, adapterClosed, wireVars, callVars, now, inboundReply,
                   authVars, logsReturned, moreVars>>

\* ---------------------------------------------------- operator commands

\* HTTP status of an endpoint that finds no registry entry for the charger.
\* remote_start answers 404 for an unknown charger and 503 for a known one;
\* cancel_reservation raises 404 inside "try ... except Exception", which turns
\* it into 500; the other endpoints answer 404.
NotConnectedHttp(kind, c, db) ==
    CASE kind = "RemoteStart" -> (IF c \in db THEN 503 ELSE 404)
      [] kind = "CancelReservation" -> 500
      [] OTHER -> 404

\* HTTP status of an endpoint whose ChargePoint method has returned.
\* remote_start/remote_stop wrap every failure into False and the endpoint
\* answers {"status": "success", "response": False}; reserve_now and
\* cancel_reservation return None on failure and the endpoint answers 500;
\* send_raw_message re-raises; the MSIL data_transfer branch always answers 200.
CompletedHttp(kind, outcome) ==
    CASE kind \in {"RemoteStart", "RemoteStop"} -> 200
      [] kind \in {"ReserveNow", "CancelReservation"} ->
            (IF outcome \in {"Accepted", "Rejected"} THEN 200 ELSE 500)
      [] kind = "RawMessage" -> (IF outcome = "SendFailure" THEN 500 ELSE 200)
      [] OTHER -> 200

\* ChargerStore.add_reservation: the Charger class of database.py declares no
\* reservations attribute, so reading charger.reservations raises inside the try
\* block; the except branch rolls back and nothing is stored.
AddReservation(res, c, r) == res

\* ChargerStore.remove_reservation: same attribute read, same except branch.
RemoveReservation(res, c, r) == res

\* reserve_now / cancel_reservation after "response = await self.call(request)".
StoreEffect(res, kind, outcome, c, r) ==
    IF kind = "ReserveNow" /\ outcome = "Accepted" THEN AddReservation(res, c, r)
    ELSE IF kind = "CancelReservation" /\ outcome = "Accepted" THEN RemoveReservation(res, c, r)
    ELSE res

\* The ChargePoint method returns (or raises) and the endpoint answers.
Finish(k, outcome) ==
    /\ callPc' = [callPc EXCEPT ![k] = "done"]
    /\ callOutcome' = [callOutcome EXCEPT ![k] = outcome]
    /\ callHttp' = [callHttp EXCEPT ![k] = CompletedHttp(callKind[k], outcome)]
    /\ reservations' = StoreEffect(reservations, callKind[k], outcome, callCp[k], callRes[k])

\* WebSocketAdapter.send entered by call k on session s: it does nothing at all
\* when the adapter is closed and returns as if the frame had been sent;
\* otherwise the task is suspended in websocket.send_text.
AdapterSendPc(s) == IF adapterClosed[s] THEN "returned" ELSE "sending"

\* call() with the send serializer free: a waiter is inserted for the fresh
\* uid and the caller enters WebSocketAdapter.send holding the serializer.
\* When send returns at once the serializer is free again and the caller waits
\* for a reply to a frame that was never written.
StartCall(k, s) ==
    /\ pending' = pending \cup {k}
    /\ IF AdapterSendPc(s) = "returned"
       THEN /\ dropped' = dropped \cup {k}
            /\ callPc' = [callPc EXCEPT ![k] = "waiting"]
            /\ UNCHANGED <<inSend, callLock>>
       ELSE /\ inSend' = [inSend EXCEPT ![s] = @ \cup {k}]
            /\ callLock' = [callLock EXCEPT ![s] = k]
            /\ callPc' = [callPc EXCEPT ![k] = "sending"]
            /\ UNCHANGED dropped

\* An operator request reaches its endpoint. Without a registry entry the
\* endpoint answers at once. Typed commands go on to call(), which takes the
\* call lock or queues for it; raw_message and the MSIL branch of data_transfer
\* go straight to self._connection.send.
ApiRequest(k, kind, c, r) ==
    /\ callPc[k] = "idle"
    /\ \A j \in Calls : j < k => callPc[j] # "idle"
    /\ callKind' = [callKind EXCEPT ![k] = kind]
    /\ callCp' = [callCp EXCEPT ![k] = c]
    /\ kind \notin {"ReserveNow", "CancelReservation"} => r = 1
    /\ callRes' = [callRes EXCEPT ![k] = r]
    /\ IF charge_points[c] = NoSession
       THEN /\ callPc' = [callPc EXCEPT ![k] = "done"]
            /\ callOutcome' = [callOutcome EXCEPT ![k] = "NotConnected"]
            /\ callHttp' = [callHttp EXCEPT ![k] = NotConnectedHttp(kind, c, dbChargers)]
            /\ UNCHANGED <<callSess, callLock, pending, inSend, dropped>>
       ELSE /\ callSess' = [callSess EXCEPT ![k] = charge_points[c]]
            /\ IF kind \in TypedKinds
               THEN /\ IF callLock[charge_points[c]] = NoCall
                       THEN StartCall(k, charge_points[c])
                       ELSE /\ callPc' = [callPc EXCEPT ![k] = "lockwait"]
                            /\ UNCHANGED <<callLock, pending, inSend, dropped>>
                    /\ UNCHANGED <<callOutcome, callHttp>>
               ELSE IF AdapterSendPc(charge_points[c]) = "returned"
               THEN /\ callPc' = [callPc EXCEPT ![k] = "done"]
                    /\ callOutcome' = [callOutcome EXCEPT ![k] = "Dropped"]
                    /\ callHttp' = [callHttp EXCEPT ![k] = CompletedHttp(kind, "Dropped")]
                    /\ dropped' = dropped \cup {k}
                    /\ UNCHANGED <<callLock, pending, inSend>>
               ELSE /\ callPc' = [callPc EXCEPT ![k] = "sending"]
                    /\ inSend' = [inSend EXCEPT ![charge_points[c]] = @ \cup {k}]
                    /\ UNCHANGED <<callOutcome, callHttp, callLock, pending, dropped>>
    /\ UNCHANGED <<sessVars, written, replied, ignored,
                   resolveCount, reservations, storeVars>>

\* A caller queued for the send serializer is woken after the holder released it.
AcquireLock(k) ==
    /\ callPc[k] = "lockwait"
    /\ callLock[callSess[k]] = NoCall
    /\ StartCall(k, callSess[k])
    /\ UNCHANGED <<sessVars, written, replied, ignored, callKind, callCp,
                   callSess, callRes, callOutcome, callHttp, resolveCount, reservations,
                   storeVars>>

\* A serializer that stays with the command until its reply or time-out.
LockAfterWriteHeld(lock, s) == lock

\* The send serializer of session s once the frame write of its holder has
\* returned: it is free, whether or not the reply has come.
LockAfterWrite(lock, s) == [lock EXCEPT ![s] = NoCall]

\* websocket.send_text returns: the frame is on the wire. A typed command
\* releases the serializer and waits for its reply; a raw or MSIL frame has no
\* waiter and the method returns.
SendComplete(k) ==
    /\ callPc[k] = "sending"
    /\ inSend' = [inSend EXCEPT ![callSess[k]] = @ \ {k}]
    /\ written' = written \cup {k}
    /\ IF callLock[callSess[k]] = k
       THEN /\ callLock' = LockAfterWrite(callLock, callSess[k])
            /\ callPc' = [callPc EXCEPT ![k] = "waiting"]
            /\ UNCHANGED <<callOutcome, callHttp, reservations>>
       ELSE /\ Finish(k, "Sent")
            /\ UNCHANGED callLock
    /\ UNCHANGED <<sessVars, pending, dropped, replied, ignored, callKind,
                   callCp, callSess, callRes, resolveCount, storeVars>>

\* websocket.send_text raises. Inside call() the serializer is released, the
\* waiter is withdrawn and the wrapper's except branch runs; send_raw_message
\* re-raises; _send_msil_packet falls back to a typed DataTransfer through
\* call(), which sends again at once when the serializer is free and queues
\* for it otherwise.
SendFail(k) ==
    /\ callPc[k] = "sending"
    /\ IF callLock[callSess[k]] = k
       THEN /\ callLock' = [callLock EXCEPT ![callSess[k]] = NoCall]
            /\ pending' = pending \ {k}
            /\ inSend' = [inSend EXCEPT ![callSess[k]] = @ \ {k}]
            /\ Finish(k, "SendFailure")
            /\ UNCHANGED dropped
       ELSE IF callKind[k] # "MsilDataTransfer"
       THEN /\ inSend' = [inSend EXCEPT ![callSess[k]] = @ \ {k}]
            /\ Finish(k, "SendFailure")
            /\ UNCHANGED <<callLock, pending, dropped>>
       ELSE IF callLock[callSess[k]] # NoCall
       THEN /\ inSend' = [inSend EXCEPT ![callSess[k]] = @ \ {k}]
            /\ callPc' = [callPc EXCEPT ![k] = "lockwait"]
            /\ UNCHANGED <<callLock, pending, dropped, callOutcome, callHttp, reservations>>
       ELSE /\ pending' = pending \cup {k}
            /\ IF AdapterSendPc(callSess[k]) = "returned"
               THEN /\ inSend' = [inSend EXCEPT ![callSess[k]] = @ \ {k}]
                    /\ dropped' = dropped \cup {k}
                    /\ callPc' = [callPc EXCEPT ![k] = "waiting"]
                    /\ UNCHANGED callLock
               ELSE /\ callLock' = [callLock EXCEPT ![callSess[k]] = k]
                    /\ UNCHANGED <<inSend, dropped, callPc>>
            /\ UNCHANGED <<callOutcome, callHttp, reservations>>
    /\ UNCHANGED <<sessVars, written, replied, ignored, callKind,
                   callCp, callSess, callRes, resolveCount, storeVars>>

\* ------------------------------------------------ replies and time-outs
\* The waiting side of an outbound call (call(), the routing of CALLRESULT and
\* CALLERROR frames and the pending-call table) is the base class
\* ocpp.v16.ChargePoint, imported by ocpp_handler.py and not part of src/:
\* modelled after spec sections 4.B and 4.C.

\* A routing that hands a reply nobody waits for to any waiter of the table.
WaiterAny(p, uid) == IF uid \in p THEN {uid} ELSE p

\* "pop the waiter by uid": the waiters a reply with this uid fulfils.
Waiter(p, uid) == IF uid \in p THEN {uid} ELSE {}

\* A time-out that leaves the waiter in the table.
PendingAfterTimeoutKept(p, k) == p

\* "On timeout, remove the waiter": the table after the deadline of k passed.
PendingAfterTimeout(p, k) == p \ {k}

\* The receive loop of a running session reads a CALLRESULT or CALLERROR that
\* the charger sent for a frame it received. The waiter of that uid is popped
\* and fulfilled, and the wrapper's code after "await self.call(...)" runs;
\* without a waiter the reply is logged and dropped, never answered.
RecvReply(s, k, typ) ==
    /\ sessState[s] = "running"
    /\ k \in written
    /\ callSess[k] = s
    /\ replied[k] = "none"
    /\ replied' = [replied EXCEPT ![k] = typ]
    /\ IF Waiter(pending, k) # {}
       THEN /\ \E j \in Waiter(pending, k) :
                 /\ pending' = pending \ {j}
                 /\ resolveCount' = [resolveCount EXCEPT ![j] = @ + 1]
                 /\ Finish(j, typ)
            /\ UNCHANGED ignored
       ELSE /\ ignored' = ignored \cup {k}
            /\ UNCHANGED <<pending, resolveCount, callPc, callOutcome, callHttp,
                           reservations>>
    /\ UNCHANGED <<sessVars, callLock, inSend, written, dropped, callKind, callCp,
                   callSess, callRes, storeVars>>

\* The deadline of a waiting call passes: the waiter is removed and the
\* wrapper's except branch runs.
CallTimeout(k) ==
    /\ callPc[k] = "waiting"
    /\ pending' = PendingAfterTimeout(pending, k)
    /\ resolveCount' = [resolveCount EXCEPT ![k] = @ + 1]
    /\ Finish(k, "Timeout")
    /\ UNCHANGED <<sessVars, callLock, inSend, written, dropped, replied, ignored,
                   callKind, callCp, callSess, callRes, storeVars>>

\* ------------------------------------------------------- specification
Next ==
    \/ \E s \in Sessions, c \in Chargers : Connect(s, c)
    \/ \E s \in Sessions : Disconnect(s)
    \/ \E c \in Chargers : DeleteCharger(c)
    \/ \E k \in Calls, kind \in Kinds, c \in Chargers, r \in ResIds : ApiRequest(k, kind, c, r)
    \/ \E k \in Calls : AcquireLock(k)
    \/ \E k \in Calls : SendComplete(k)
    \/ \E k \in Calls : SendFail(k)
    \/ \E s \in Sessions, k \in Calls, typ \in ReplyTypes : RecvReply(s, k, typ)
    \/ \E k \in Calls : CallTimeout(k)

Spec == Init /\ [][Next]_vars

\* One charger is connected and stays the only connection: the state after
\* Connect(1, "CP1"). SpecCall follows the outbound commands of that session.
InitCall ==
    /\ charge_points = [c \in Chargers |-> 1]
    /\ dbChargers = {"CP1"}
    /\ sessState = [s \in Sessions |-> IF s = 1 THEN "running" ELSE "new"]
    /\ sessCp = [s \in Sessions |-> "CP1"]
    /\ adapterClosed = [s \in Sessions |-> FALSE]
    /\ callLock = [s \in Sessions |-> NoCall]
    /\ pending = {}
    /\ inSend = [s \in Sessions |-> {}]
    /\ written = {}
    /\ dropped = {}
    /\ replied = [k \in Calls |-> "none"]
    /\ ignored = {}
    /\ callKind = [k \in Calls |-> "none"]
    /\ callCp = [k \in Calls |-> "CP1"]
    /\ callSess = [k \in Calls |-> NoSession]
    /\ callRes = [k \in Calls |-> 1]
    /\ callPc = [k \in Calls |-> "idle"]
    /\ callOutcome = [k \in Calls |-> "none"]
    /\ callHttp = [k \in Calls |-> 0]
    /\ resolveCount = [k \in Calls |-> 0]
    /\ reservations = [c \in Chargers |-> {}]
    /\ chStatus = [c \in Chargers |-> "Available"]
    /\ current_transaction = [c \in Chargers |-> NoTx]
    /\ connector_status = [c \in Chargers |-> <<>>]
    /\ now = 1
    /\ txIssued = [c \in Chargers |-> [tx \in 1..MaxTime |-> 0]]
    /\ inboundReply = [c \in Chargers |-> NoReply]
    /\ idTagTable = [t \in AuthTags |-> "absent"]
    /\ local_auth_list_version = 0
    /\ listPc = [k \in ListCalls |-> "idle"]
    /\ listVersion = [k \in ListCalls |-> 0]
    /\ listItems = [k \in ListCalls |-> <<>>]
    /\ listForce = [k \in ListCalls |-> FALSE]
    /\ listResp = [k \in ListCalls |-> "none"]
    /\ logs = [c \in Chargers |-> <<>>]
    /\ logs_cleared_at = [c \in Chargers |-> 0]
    /\ logCount = [c \in Chargers |-> 0]
    /\ logsReturned = [c \in Chargers |-> <<>>]
    /\ latest_status = [c \in Chargers |-> NoStatusLog]
    /\ clearedCount = [c \in Chargers |-> 0]
    /\ reservationsReturned = [c \in Chargers |-> NoAnswer]
    /\ vendorEnabled = [c \in Chargers |-> {}]
    /\ rxPc = [s \in Sessions |-> "recv"]
    /\ rxStart = [s \in Sessions |-> 0]
    /\ startCount = 0
    /\ startTx = [i \in Starts |-> NoTx]
    /\ startSess = [i \in Starts |-> NoSession]
    /\ replyWritten = [i \in Starts |-> FALSE]
    /\ jobs = [i \in Starts |-> [v \in Vendors |-> NoJob]]
    /\ callTx = [k \in Calls |-> NoTx]
    /\ callJob = [k \in Calls |-> 0]
    /\ msilWarned = {}
    /\ charging_profiles = [c \in Chargers |-> {}]
    /\ profileOps = [c \in Chargers |-> <<>>]
    /\ profilesReturned = [c \in Chargers |-> NoProfileAnswer]
    /\ idTagHttp = 0

\* The commands SpecCall issues: a typed command with a store effect, a typed
\* command without one, and a frame sent without a waiter.
CallKinds == {"ReserveNow", "RemoteStart", "MsilDataTransfer"}

NextCall ==
    \/ \E s \in Sessions : Disconnect(s)
    \/ \E k \in Calls, kind \in CallKinds, c \in Chargers, r \in ResIds : ApiRequest(k, kind, c, r)
    \/ \E k \in Calls : AcquireLock(k)
    \/ \E k \in Calls : SendComplete(k)
    \/ \E k \in Calls : SendFail(k)
    \/ \E s \in Sessions, k \in Calls, typ \in ReplyTypes : RecvReply(s, k, typ)
    \/ \E k \in Calls : CallTimeout(k)

SpecCall == InitCall /\ [][NextCall]_vars

\* ------------------------------------------------------- charger store

\* One key of the connector_status dict with its value; transaction_id and
\* id_tag are NoTx and "none" when the value has no such key.
Entry(n, st, tx, tag) == [connector |-> n, status |-> st, transaction_id |-> tx, id_tag |-> tag]

\* connector_data[f"connector_{n}"] = value: an existing key keeps its place,
\* a new key goes last.
PutEntry(cs, e) ==
    IF \E i \in 1..Len(cs) : cs[i].connector = e.connector
    THEN [i \in 1..Len(cs) |-> IF cs[i].connector = e.connector THEN e ELSE cs[i]]
    ELSE Append(cs, e)

\* update_connector_status with the write flushed, as flag_modified would do.
UpdateConnectorStatusFlushed(cs, n, status) == PutEntry(cs, Entry(n, status, NoTx, "none"))

\* ChargerStore.update_connector_status. The entry of the connector is replaced
\* by {status, updated_at}. "charger.connector_status or {}" is the dict loaded
\* from the row unless that dict is empty; the loaded dict is changed in place
\* and assigned back without flag_modified, so the unit of work compares the
\* attribute with itself, writes nothing, and commit() expires the object: the
\* change is gone. Only the fresh dict built for an empty column is written.
UpdateConnectorStatus(cs, n, status) ==
    IF cs # <<>> THEN cs ELSE PutEntry(cs, Entry(n, status, NoTx, "none"))

\* ChargerStore.set_active_transaction, the connector_status part.
SetActiveTransaction(cs, n, tx, tag) == PutEntry(cs, Entry(n, "Preparing", tx, tag))

\* A clear that leaves the connector entries as they are.
ClearActiveTransactionKept(cs, tx) == cs

\* ChargerStore.clear_active_transaction, the connector_status part: the first
\* entry that carries the transaction id loses its transaction fields.
ClearActiveTransaction(cs, tx) ==
    LET hits == {i \in 1..Len(cs) : cs[i].transaction_id = tx} IN
    IF hits = {} THEN cs
    ELSE LET first == CHOOSE i \in hits : \A j \in hits : i <= j IN
         [cs EXCEPT ![first].transaction_id = NoTx, ![first].id_tag = "none"]

\* ChargerStore.get_active_transaction: None when current_transaction is not
\* set; otherwise the details of the first entry that carries it, with the
\* charger's status when it has one, or the fallback answer (connector 1).
NoActive == [transaction_id |-> NoTx, connector_id |-> 0, id_tag |-> "none", status |-> "none"]

GetActiveTransaction(cur, cs, st) ==
    IF cur = NoTx THEN NoActive
    ELSE LET hits == {i \in 1..Len(cs) : cs[i].transaction_id = cur} IN
         IF hits # {}
         THEN LET first == CHOOSE i \in hits : \A j \in hits : i <= j IN
              [transaction_id |-> cur, connector_id |-> cs[first].connector,
               id_tag |-> cs[first].id_tag,
               status |-> IF st # "" THEN st ELSE cs[first].status]
         ELSE [transaction_id |-> cur, connector_id |-> 1, id_tag |-> "none", status |-> st]

\* The charger of id c has a connection whose receive loop runs.
Receiving(c) == \E s \in Sessions : sessState[s] = "running" /\ sessCp[s] = c

\* on_start_transaction: the transaction id is the current second; the store
\* does nothing when the charger has no row.
StartTransaction(c, n, tag) ==
    /\ Receiving(c)
    /\ IF c \in dbChargers
       THEN /\ current_transaction' = [current_transaction EXCEPT ![c] = now]
            /\ connector_status' = [connector_status EXCEPT
                                       ![c] = SetActiveTransaction(@, n, now, tag)]
       ELSE UNCHANGED <<current_transaction, connector_status>>
    /\ txIssued' = [txIssued EXCEPT ![c][now] = IF @ = 0 THEN 1 ELSE 2]
    /\ inboundReply' = [inboundReply EXCEPT
                           ![c] = Reply("StartTransaction", "CallResult", now, "Accepted")]
    /\ UNCHANGED <<sessVars, wireVars, callVars, reservations, chStatus, now, authVars,
                   logVars, moreVars>>

\* on_stop_transaction: current_transaction is set to None whatever the id is.
StopTransaction(c, tx) ==
    /\ Receiving(c)
    /\ IF c \in dbChargers
       THEN /\ current_transaction' = [current_transaction EXCEPT ![c] = NoTx]
            /\ connector_status' = [connector_status EXCEPT
                                       ![c] = ClearActiveTransaction(@, tx)]
       ELSE UNCHANGED <<current_transaction, connector_status>>
    /\ inboundReply' = [inboundReply EXCEPT
                           ![c] = Reply("StopTransaction", "CallResult", NoTx, "none")]
    /\ UNCHANGED <<sessVars, wireVars, callVars, reservations, chStatus, now, txIssued,
                   authVars, logVars, moreVars>>

\* The result of the scan of get_chargers once an entry of timestamp ts and a
\* message "StatusNotification: ... status=<status>" is appended to a list on
\* which the scan found cur: a candidate replaces the one kept only when its
\* timestamp is greater ("parsed_time > latest_timestamp").
ScanAppended(cur, ts, status) ==
    IF cur.status = "none" \/ ts > cur.timestamp THEN StatusLog(ts, status) ELSE cur

\* on_status_notification: add_log of the notification, Charger.status, then
\* update_connector_status.
StatusNotification(c, n, status) ==
    /\ Receiving(c)
    /\ IF c \in dbChargers
       THEN /\ latest_status' = [latest_status EXCEPT ![c] = ScanAppended(@, now, status)]
            /\ chStatus' = [chStatus EXCEPT ![c] = status]
            /\ connector_status' = [connector_status EXCEPT
                                       ![c] = UpdateConnectorStatus(@, n, status)]
       ELSE UNCHANGED <<latest_status, chStatus, connector_status>>
    /\ inboundReply' = [inboundReply EXCEPT
                           ![c] = Reply("StatusNotification", "CallResult", NoTx, "none")]
    /\ UNCHANGED <<sessVars, wireVars, callVars, reservations, current_transaction, now,
                   txIssued, authVars, logs, logs_cleared_at, logCount, logsReturned, clearedCount, moreVars>>

\* A second of wall-clock time passes.
Tick ==
    /\ now < MaxTime
    /\ now' = now + 1
    /\ UNCHANGED <<sessVars, wireVars, callVars, reservations, chStatus,
                   current_transaction, connector_status, txIssued, inboundReply,
                   authVars, logVars, moreVars>>

NextTx ==
    \/ \E s \in Sessions, c \in Chargers : Connect(s, c)
    \/ \E c \in Chargers : DeleteCharger(c)
    \/ \E c \in Chargers, n \in Connectors, tag \in IdTags : StartTransaction(c, n, tag)
    \/ \E c \in Chargers, tx \in 1..MaxTime : StopTransaction(c, tx)
    \/ \E c \in Chargers, n \in Connectors, status \in Statuses : StatusNotification(c, n, status)
    \/ Tick

SpecTx == Init /\ [][NextTx]_vars

\* ------------------------------------------------------ storage errors

\* WebSocketAdapter.recv has read a frame and the query or commit of its
\* last_heartbeat update raises: the exception is no WebSocketDisconnect, it
\* leaves recv and charge_point.start(), and websocket_endpoint logs it, removes
\* the registry key and closes the adapter.
RecvStorageError(s) ==
    /\ sessState[s] = "running"
    /\ sessState' = [sessState EXCEPT ![s] = "ended"]
    /\ adapterClosed' = [adapterClosed EXCEPT ![s] = TRUE]
    /\ charge_points' = CleanupRegistry(charge_points, sessCp[s], s)
    /\ UNCHANGED <<dbChargers, sessCp, wireVars, callVars, reservations, storeVars>>

\* The commit of on_status_notification raises: add_log has committed its
\* entry, the status is not stored, the handler logs and re-raises, and the
\* charger is answered with a CALLERROR.
HandlerStorageError(s, status) ==
    /\ sessState[s] = "running"
    /\ latest_status' = [latest_status EXCEPT
                           ![sessCp[s]] = IF sessCp[s] \in dbChargers
                                          THEN ScanAppended(@, now, status) ELSE @]
    /\ inboundReply' = [inboundReply EXCEPT
                           ![sessCp[s]] = Reply("StatusNotification", "CallError", NoTx, "none")]
    /\ UNCHANGED <<sessVars, wireVars, callVars, reservations, chStatus, current_transaction,
                   connector_status, now, txIssued, authVars, logs, logs_cleared_at, logCount,
                   logsReturned, clearedCount, moreVars>>

\* The inbound handlers with storage errors in the receive path and in a
\* handler.
NextFault ==
    \/ \E s \in Sessions, c \in Chargers : Connect(s, c)
    \/ \E s \in Sessions : RecvStorageError(s)
    \/ \E s \in Sessions, status \in Statuses : HandlerStorageError(s, status)
    \/ \E c \in Chargers, n \in Connectors, tag \in IdTags : StartTransaction(c, n, tag)
    \/ \E c \in Chargers, tx \in 1..MaxTime : StopTransaction(c, tx)
    \/ \E c \in Chargers, n \in Connectors, status \in Statuses : StatusNotification(c, n, status)
    \/ Tick

SpecFault == Init /\ [][NextFault]_vars

\* ------------------------------------------------------- charger status

\* on_boot_notification: ChargerStore.add_charger creates the row with status
\* 'Available' when there is none and leaves the status of an existing row; the
\* log entry "BootNotification: vendor=..., model=..." follows.
BootNotification(c) ==
    /\ Receiving(c)
    /\ dbChargers' = dbChargers \cup {c}
    /\ chStatus' = IF c \in dbChargers THEN chStatus ELSE [chStatus EXCEPT ![c] = "Available"]
    /\ inboundReply' = [inboundReply EXCEPT
                           ![c] = Reply("BootNotification", "CallResult", NoTx, "Accepted")]
    /\ UNCHANGED <<charge_points, sessState, sessCp, adapterClosed, wireVars, callVars,
                   reservations, current_transaction, connector_status, now, txIssued,
                   authVars, logVars, moreVars>>

\* The data strings of a DataTransfer the charger sends: a plain one, and one
\* that reads like the log line of a StatusNotification.
StatusData == "StatusNotification: status=Charging"
DataChoices == {"hello", StatusData}

\* get_chargers on the log line "DataTransfer from charger: vendorId=...,
\* messageId=..., data=<data> [OCPP COMPLIANT]": the line is a candidate when it
\* contains 'StatusNotification:' and 'status=', and the status is the match of
\* status=([^,\s]+) when that is one of the nine OCPP statuses.
StatusInLog(data) == IF data = StatusData THEN "Charging" ELSE "none"

\* on_data_transfer with a string as data: the log entry, then the reply.
DataTransfer(c, data) ==
    /\ Receiving(c)
    /\ latest_status' = [latest_status EXCEPT
                           ![c] = IF c \in dbChargers /\ StatusInLog(data) # "none"
                                  THEN ScanAppended(@, now, StatusInLog(data)) ELSE @]
    /\ inboundReply' = [inboundReply EXCEPT
                           ![c] = Reply("DataTransfer", "CallResult", NoTx, "Accepted")]
    /\ UNCHANGED <<sessVars, wireVars, callVars, reservations, chStatus, current_transaction,
                   connector_status, now, txIssued, authVars, logs, logs_cleared_at, logCount,
                   logsReturned, clearedCount, moreVars>>

\* get_chargers, is_connected: the charger has a registry key, or one of its
\* last log entries is a frame of the last 60 seconds. The clock of the model
\* spans less than 60 seconds, and a log that holds a status line holds the
\* frame that carried it.
IsConnected(c) == charge_points[c] # NoSession \/ latest_status[c].status # "none"

\* GET /api/chargers: for every row of a connected charger whose log holds a
\* status line, the status of the latest one is written to Charger.status when
\* the two differ.
GetChargers ==
    /\ chStatus' = [c \in Chargers |->
                       IF /\ c \in dbChargers
                          /\ IsConnected(c)
                          /\ latest_status[c].status # "none"
                          /\ latest_status[c].status # chStatus[c]
                       THEN latest_status[c].status
                       ELSE chStatus[c]]
    /\ UNCHANGED <<sessVars, wireVars, callVars, reservations, current_transaction,
                   connector_status, now, txIssued, inboundReply, authVars, logVars, moreVars>>

NextStatus ==
    \/ \E s \in Sessions, c \in Chargers : Connect(s, c)
    \/ \E s \in Sessions : Disconnect(s)
    \/ \E c \in Chargers : DeleteCharger(c)
    \/ \E c \in Chargers : BootNotification(c)
    \/ \E c \in Chargers, n \in Connectors, status \in Statuses : StatusNotification(c, n, status)
    \/ \E c \in Chargers, data \in DataChoices : DataTransfer(c, data)
    \/ GetChargers
    \/ Tick

SpecStatus == Init /\ [][NextStatus]_vars

\* -------------------------------------------------------------- id tags

\* Database.save_id_tag: the status of an existing row is replaced, a missing
\* row is inserted.
SaveIdTag(table, tag, status) == [table EXCEPT ![tag] = status]

\* Database.get_id_tags behind GET /api/idtags: the rows as a dict keyed by
\* id_tag (the column is unique).
GetIdTags(table) == [tag \in {x \in DOMAIN table : table[x] # "absent"} |-> table[tag]]

\* A delete that answers 200 whether or not the row exists.
DeleteIdTagHttpAlways(table, tag) == 200

\* delete_id_tag: Database.delete_id_tag returns False when there is no such
\* row and the endpoint raises 404.
DeleteIdTagHttp(table, tag) == IF table[tag] # "absent" THEN 200 ELSE 404

\* POST /api/idtags: a tag of more than 20 characters is refused with 400 and
\* nothing is saved.
AddIdTag(tag, status) ==
    /\ IF TagLength(tag) <= 20
       THEN /\ idTagTable' = SaveIdTag(idTagTable, tag, status)
            /\ idTagHttp' = 200
       ELSE /\ idTagHttp' = 400
            /\ UNCHANGED idTagTable
    /\ UNCHANGED <<sessVars, wireVars, callVars, reservations, chStatus, current_transaction,
                   connector_status, now, txIssued, inboundReply, local_auth_list_version,
                   listPc, listVersion, listItems, listForce, listResp, logVars,
                   reservationsReturned, schedVars, profVars>>

\* DELETE /api/idtags/{id_tag}: the row is deleted; 404 when there is none.
DeleteIdTag(tag) ==
    /\ idTagTable' = [idTagTable EXCEPT ![tag] = "absent"]
    /\ idTagHttp' = DeleteIdTagHttp(idTagTable, tag)
    /\ UNCHANGED <<sessVars, wireVars, callVars, reservations, chStatus, current_transaction,
                   connector_status, now, txIssued, inboundReply, local_auth_list_version,
                   listPc, listVersion, listItems, listForce, listResp, logVars,
                   reservationsReturned, schedVars, profVars>>

\* An authorization that accepts every tag that has a row.
AuthorizeStatusAnyRow(table, tag) == IF table[tag] # "absent" THEN "Accepted" ELSE "Invalid"

\* on_authorize: "if tag and tag.status == AuthorizationStatus.accepted".
AuthorizeStatus(table, tag) == IF table[tag] = "Accepted" THEN "Accepted" ELSE "Invalid"

\* An authorization that stores the tag it was asked about.
TableAfterAuthorizeCreated(table, tag) ==
    IF table[tag] = "absent" THEN SaveIdTag(table, tag, "Accepted") ELSE table

\* on_authorize: the id_tags table after the handler; the row is only queried.
TableAfterAuthorize(table, tag) == table

\* on_authorize. The log entry it adds first is followed in SpecLog.
Authorize(c, tag) ==
    /\ Receiving(c)
    /\ idTagTable' = TableAfterAuthorize(idTagTable, tag)
    /\ inboundReply' = [inboundReply EXCEPT
                           ![c] = Reply("Authorize", "CallResult", NoTx,
                                        AuthorizeStatus(idTagTable, tag))]
    /\ UNCHANGED <<sessVars, wireVars, callVars, reservations, chStatus, current_transaction,
                   connector_status, now, txIssued, local_auth_list_version,
                   listPc, listVersion, listItems, listForce, listResp, logVars, moreVars>>

\* The inbound handlers next to the operator's id-tag endpoints.
NextAuth ==
    \/ \E s \in Sessions, c \in Chargers : Connect(s, c)
    \/ \E tag \in AuthTags, status \in TagStatuses : AddIdTag(tag, status)
    \/ \E tag \in AuthTags : DeleteIdTag(tag)
    \/ \E c \in Chargers, tag \in AuthTags : Authorize(c, tag)
    \/ \E c \in Chargers, n \in Connectors, tag \in IdTags : StartTransaction(c, n, tag)
    \/ \E c \in Chargers, tx \in 1..MaxTime : StopTransaction(c, tx)
    \/ \E c \in Chargers, n \in Connectors, status \in Statuses : StatusNotification(c, n, status)

SpecAuth == Init /\ [][NextAuth]_vars

\* ----------------------------------------------------------- local list

\* One element of local_authorization_list: the key its tag is stored under
\* ("idTag" or "id_tag"), the tag, and the status of its idTagInfo ("none" when
\* it has no status).
Item(key, tag, status) == [key |-> key, tag |-> tag, status |-> status]

\* The lists an operator sends.
ListChoices ==
    { <<>>,
      <<Item("idTag", "TAG1", "Blocked")>>,
      <<Item("idTag", "TAG1", "none")>>,
      <<Item("id_tag", "TAG1", "Accepted")>>,
      <<Item("idTag", LongTag, "Accepted")>> }

\* What ChargePoint.send_local_list returns: the charger's status, or None
\* after an exception (send failure, time-out).
ListResponses == {"Accepted", "Failed", "None"}

\* A counter that hands out the version it already holds.
IncrementVersionStale(v) == v

\* ChargerStore.increment_local_auth_list_version.
IncrementVersion(v) == v + 1

\* "status = id_tag_info.get('status', 'Accepted')".
ItemStatus(item) == IF item.status = "none" THEN "Accepted" ELSE item.status

\* A loop that stores a tag of any length.
StoredAnyLength(item) == item.key = "idTag"

\* send_local_list, one element of the list: it is stored when it has the key
\* 'idTag' and its tag has at most 20 characters.
Stored(item) == item.key = "idTag" /\ TagLength(item.tag) <= 20

\* send_local_list, the loop over the list.
RECURSIVE MirrorList(_, _)
MirrorList(table, items) ==
    IF items = <<>> THEN table
    ELSE LET item == Head(items) IN
         MirrorList(IF Stored(item)
                    THEN SaveIdTag(table, item.tag, ItemStatus(item))
                    ELSE table,
                    Tail(items))

\* POST /api/send/{id}/send_local_list up to the await: the version is
\* incremented and the request is handed to the wrapper. A charger without a
\* registry entry is answered 404 before anything is changed.
SendLocalListRequest(k, c, items, force) ==
    /\ listPc[k] = "idle"
    /\ \A j \in ListCalls : j < k => listPc[j] # "idle"
    /\ charge_points[c] # NoSession
    /\ local_auth_list_version' = IncrementVersion(local_auth_list_version)
    /\ listVersion' = [listVersion EXCEPT ![k] = local_auth_list_version']
    /\ listItems' = [listItems EXCEPT ![k] = items]
    /\ listForce' = [listForce EXCEPT ![k] = force]
    /\ listPc' = [listPc EXCEPT ![k] = "waiting"]
    /\ UNCHANGED <<sessVars, wireVars, callVars, reservations, chStatus, current_transaction,
                   connector_status, now, txIssued, inboundReply, idTagTable, listResp,
                   logVars, moreVars>>

\* send_local_list after the await: the list is stored when the charger
\* accepted it or force_store_locally is set.
SendLocalListResponse(k, resp) ==
    /\ listPc[k] = "waiting"
    /\ listResp' = [listResp EXCEPT ![k] = resp]
    /\ listPc' = [listPc EXCEPT ![k] = "done"]
    /\ idTagTable' = IF resp = "Accepted" \/ listForce[k]
                     THEN MirrorList(idTagTable, listItems[k])
                     ELSE idTagTable
    /\ UNCHANGED <<sessVars, wireVars, callVars, reservations, chStatus, current_transaction,
                   connector_status, now, txIssued, inboundReply, local_auth_list_version,
                   listVersion, listItems, listForce, logVars, moreVars>>

NextList ==
    \/ \E tag \in AuthTags, status \in TagStatuses : AddIdTag(tag, status)
    \/ \E tag \in AuthTags : DeleteIdTag(tag)
    \/ \E k \in ListCalls, c \in Chargers, items \in ListChoices, force \in BOOLEAN :
           SendLocalListRequest(k, c, items, force)
    \/ \E k \in ListCalls, resp \in ListResponses : SendLocalListResponse(k, resp)

SpecList == InitCall /\ [][NextList]_vars

\* ----------------------------------------------------------------- logs

\* "logs = logs[-5000:]".
N_LOG == 5000

\* One element of Charger.logs. The messages of a charger are numbered in the
\* order of the add_log calls.
LogEntry(ts, msg) == [timestamp |-> ts, message |-> msg]

\* A cap that keeps the oldest entries.
AddLogListKeepOldest(l, e) ==
    LET a == Append(l, e) IN IF Len(a) > N_LOG THEN SubSeq(a, 1, N_LOG) ELSE a

\* ChargerStore.add_log, the list: append, then keep the last N_LOG elements.
AddLogList(l, e) ==
    LET a == Append(l, e) IN IF Len(a) > N_LOG THEN SubSeq(a, Len(a) - N_LOG + 1, Len(a)) ELSE a

\* ChargerStore.add_log, called by the handlers and endpoints: nothing is
\* stored when the charger has no row.
AddLog(c) ==
    /\ IF c \in dbChargers
       THEN /\ logs' = [logs EXCEPT ![c] = AddLogList(@, LogEntry(now, logCount[c] + 1))]
            /\ logCount' = [logCount EXCEPT ![c] = @ + 1]
       ELSE UNCHANGED <<logs, logCount>>
    /\ UNCHANGED <<sessVars, wireVars, callVars, reservations, chStatus, current_transaction,
                   connector_status, now, txIssued, inboundReply, authVars,
                   logs_cleared_at, logsReturned, latest_status, clearedCount, moreVars>>

\* ChargerStore.clear_logs: the clear time is stored, the list is left alone.
ClearLogs(c) ==
    /\ IF c \in dbChargers
       THEN /\ logs_cleared_at' = [logs_cleared_at EXCEPT ![c] = now]
            /\ clearedCount' = [clearedCount EXCEPT ![c] = logCount[c]]
       ELSE UNCHANGED <<logs_cleared_at, clearedCount>>
    /\ UNCHANGED <<sessVars, wireVars, callVars, reservations, chStatus, current_transaction,
                   connector_status, now, txIssued, inboundReply, authVars,
                   logs, logCount, logsReturned, latest_status, moreVars>>

\* A filter that also returns the entries written at the clear time.
GetLogsFromClear(l, cleared) ==
    IF l = <<>> THEN <<>>
    ELSE IF cleared # 0 THEN SelectSeq(l, LAMBDA e : e.timestamp >= cleared) ELSE l

\* ChargerStore.get_logs for a charger that has a row: with a clear time, the
\* entries whose timestamp is greater than it; otherwise the whole list.
GetLogs(l, cleared) ==
    IF l = <<>> THEN <<>>
    ELSE IF cleared # 0 THEN SelectSeq(l, LAMBDA e : e.timestamp > cleared) ELSE l

\* GET /api/logs/{id}.
GetLogsCall(c) ==
    /\ logsReturned' = [logsReturned EXCEPT
                           ![c] = IF c \in dbChargers
                                  THEN GetLogs(logs[c], logs_cleared_at[c])
                                  ELSE <<>>]
    /\ UNCHANGED <<sessVars, wireVars, callVars, reservations, chStatus, current_transaction,
                   connector_status, now, txIssued, inboundReply, authVars,
                   logs, logs_cleared_at, logCount, latest_status, clearedCount, moreVars>>

NextLog ==
    \/ \E s \in Sessions, c \in Chargers : Connect(s, c)
    \/ \E c \in Chargers : DeleteCharger(c)
    \/ \E c \in Chargers : logCount[c] < MaxLogs /\ AddLog(c)
    \/ \E c \in Chargers : ClearLogs(c)
    \/ \E c \in Chargers : GetLogsCall(c)
    \/ Tick

SpecLog == Init /\ [][NextLog]_vars

\* A connected charger whose log is two entries short of the cap: the state
\* after Connect(1, "CP1") and N_LOG - 2 add_log calls at clock reading 1.
InitLogCap ==
    /\ charge_points = [c \in Chargers |-> 1]
    /\ dbChargers = {"CP1"}
    /\ sessState = [s \in Sessions |-> IF s = 1 THEN "running" ELSE "new"]
    /\ sessCp = [s \in Sessions |-> "CP1"]
    /\ adapterClosed = [s \in Sessions |-> FALSE]
    /\ callLock = [s \in Sessions |-> NoCall]
    /\ pending = {}
    /\ inSend = [s \in Sessions |-> {}]
    /\ written = {}
    /\ dropped = {}
    /\ replied = [k \in Calls |-> "none"]
    /\ ignored = {}
    /\ callKind = [k \in Calls |-> "none"]
    /\ callCp = [k \in Calls |-> "CP1"]
    /\ callSess = [k \in Calls |-> NoSession]
    /\ callRes = [k \in Calls |-> 1]
    /\ callPc = [k \in Calls |-> "idle"]
    /\ callOutcome = [k \in Calls |-> "none"]
    /\ callHttp = [k \in Calls |-> 0]
    /\ resolveCount = [k \in Calls |-> 0]
    /\ reservations = [c \in Chargers |-> {}]
    /\ chStatus = [c \in Chargers |-> "Available"]
    /\ current_transaction = [c \in Chargers |-> NoTx]
    /\ connector_status = [c \in Chargers |-> <<>>]
    /\ now = 1
    /\ txIssued = [c \in Chargers |-> [tx \in 1..MaxTime |-> 0]]
    /\ inboundReply = [c \in Chargers |-> NoReply]
    /\ idTagTable = [t \in AuthTags |-> "absent"]
    /\ local_auth_list_version = 0
    /\ listPc = [k \in ListCalls |-> "idle"]
    /\ listVersion = [k \in ListCalls |-> 0]
    /\ listItems = [k \in ListCalls |-> <<>>]
    /\ listForce = [k \in ListCalls |-> FALSE]
    /\ listResp = [k \in ListCalls |-> "none"]
    /\ logs = [c \in Chargers |-> [i \in 1..(N_LOG - 2) |-> LogEntry(1, i)]]
    /\ logs_cleared_at = [c \in Chargers |-> 0]
    /\ logCount = [c \in Chargers |-> N_LOG - 2]
    /\ logsReturned = [c \in Chargers |-> <<>>]
    /\ latest_status = [c \in Chargers |-> NoStatusLog]
    /\ clearedCount = [c \in Chargers |-> 0]
    /\ reservationsReturned = [c \in Chargers |-> NoAnswer]
    /\ vendorEnabled = [c \in Chargers |-> {}]
    /\ rxPc = [s \in Sessions |-> "recv"]
    /\ rxStart = [s \in Sessions |-> 0]
    /\ startCount = 0
    /\ startTx = [i \in Starts |-> NoTx]
    /\ startSess = [i \in Starts |-> NoSession]
    /\ replyWritten = [i \in Starts |-> FALSE]
    /\ jobs = [i \in Starts |-> [v \in Vendors |-> NoJob]]
    /\ callTx = [k \in Calls |-> NoTx]
    /\ callJob = [k \in Calls |-> 0]
    /\ msilWarned = {}
    /\ charging_profiles = [c \in Chargers |-> {}]
    /\ profileOps = [c \in Chargers |-> <<>>]
    /\ profilesReturned = [c \in Chargers |-> NoProfileAnswer]
    /\ idTagHttp = 0

\* The log around the cap.
NextLogCap ==
    \/ \E c \in Chargers : logCount[c] < N_LOG + MaxLogs /\ AddLog(c)
    \/ \E c \in Chargers : ClearLogs(c)
    \/ \E c \in Chargers : GetLogsCall(c)
    \/ Tick

SpecLogCap == InitLogCap /\ [][NextLogCap]_vars

\* --------------------------------------------------- reservations (read)

\* The attributes the Charger class of database.py declares.
ChargerAttributes ==
    {"id", "charge_point_id", "status", "last_heartbeat", "meter_value", "current_transaction",
     "data_transfer_packets", "logs", "connector_status", "logs_cleared_at"}

\* One value of the reservations dict: its id, its expiry time, and whether the
\* expiry string carries 'Z' or an offset (fromisoformat then gives an aware
\* datetime).
Reservation(r, expiry, aware) == [reservation_id |-> r, expiry |-> expiry, aware |-> aware]

\* ChargerStore.get_reservations, the loop: "expiry_date > current_time" with
\* current_time = datetime.utcnow(), a naive datetime. Comparing an aware expiry
\* with it raises TypeError, and the except branch keeps the reservation.
ActiveReservations(stored, t) == {res \in stored : res.aware \/ res.expiry > t}

\* GET /api/reservations/{id}: {} for a charger without a row; otherwise
\* get_reservations reads charger.reservations, which raises AttributeError
\* when the class has no such attribute, and the endpoint answers 500.
GetReservations(c, rows, stored, t) ==
    IF c \notin rows THEN Answer(200, {})
    ELSE IF "reservations" \notin ChargerAttributes THEN Answer(500, {})
    ELSE Answer(200, ActiveReservations(stored, t))

GetReservationsCall(c) ==
    /\ reservationsReturned' = [reservationsReturned EXCEPT
                                   ![c] = GetReservations(c, dbChargers, reservations[c], now)]
    /\ reservations' = [reservations EXCEPT
                           ![c] = IF reservationsReturned'[c].http = 200 /\ c \in dbChargers
                                  THEN reservationsReturned'[c].reservations
                                  ELSE @]
    /\ UNCHANGED <<sessVars, wireVars, callVars, chStatus, current_transaction,
                   connector_status, now, txIssued, inboundReply, authVars, logVars,
                   schedVars, profVars, idTagHttp>>

\* ReserveNow and CancelReservation next to the read endpoint.
ResKinds == {"ReserveNow", "CancelReservation"}

NextRes ==
    \/ \E c \in Chargers : DeleteCharger(c)
    \/ \E k \in Calls, kind \in ResKinds, c \in Chargers, r \in ResIds : ApiRequest(k, kind, c, r)
    \/ \E k \in Calls : AcquireLock(k)
    \/ \E k \in Calls : SendComplete(k)
    \/ \E k \in Calls : SendFail(k)
    \/ \E s \in Sessions, k \in Calls, typ \in ReplyTypes : RecvReply(s, k, typ)
    \/ \E k \in Calls : CallTimeout(k)
    \/ \E c \in Chargers : GetReservationsCall(c)

SpecRes == InitCall /\ [][NextRes]_vars

\* The connector the reservations of SpecConsume are made for; the id tag is
\* the one of IdTags.
ResConnector == 1

\* The charger has accepted a ReserveNow for charger c.
ReservationAccepted(c) ==
    \E k \in Calls : callKind[k] = "ReserveNow" /\ callCp[k] = c /\ callOutcome[k] = "Accepted"

\* The reservation commands, the read endpoint, and the StartTransaction of
\* the reserved connector and id tag once a reservation has been accepted.
NextConsume ==
    \/ \E k \in Calls, kind \in ResKinds, c \in Chargers, r \in ResIds : ApiRequest(k, kind, c, r)
    \/ \E k \in Calls : AcquireLock(k)
    \/ \E k \in Calls : SendComplete(k)
    \/ \E k \in Calls : SendFail(k)
    \/ \E s \in Sessions, k \in Calls, typ \in ReplyTypes : RecvReply(s, k, typ)
    \/ \E k \in Calls : CallTimeout(k)
    \/ \E c \in Chargers : GetReservationsCall(c)
    \/ \E c \in Chargers, tag \in IdTags :
           ReservationAccepted(c) /\ StartTransaction(c, ResConnector, tag)

SpecConsume == InitCall /\ [][NextConsume]_vars

\* ------------------------------------- receive loop and post-transaction tasks

\* The holder of the send serializer while the receive loop writes a reply.
RxWriter == -1

\* A loop that dispatches a frame as soon as it arrives.
RxReadyAny(s) == sessState[s] = "running"

\* The receive loop of session s is between two frames: the reply to the
\* previous CALL has been written.
RxReady(s) == sessState[s] = "running" /\ rxPc[s] = "recv"

\* The handler has returned and the loop sends the CALLRESULT through the
\* serialized send path, waiting first when another frame is being written.
SendReply(s, i) ==
    /\ rxStart' = [rxStart EXCEPT ![s] = i]
    /\ IF callLock[s] = NoCall
       THEN /\ callLock' = [callLock EXCEPT ![s] = RxWriter]
            /\ inSend' = [inSend EXCEPT ![s] = @ \cup {RxWriter}]
            /\ rxPc' = [rxPc EXCEPT ![s] = "sending"]
       ELSE /\ rxPc' = [rxPc EXCEPT ![s] = "lockwait"]
            /\ UNCHANGED <<callLock, inSend>>

\* on_start_transaction dispatched by the receive loop (StartTransaction above
\* is the same handler seen from the store): the transaction is stored, the
\* three tasks are created, and the response is returned to the loop.
HandleStartTransaction(s, n, tag) ==
    /\ RxReady(s)
    /\ startCount < MaxStarts
    /\ LET c == sessCp[s]
           i == startCount + 1
       IN /\ IF c \in dbChargers
             THEN /\ current_transaction' = [current_transaction EXCEPT ![c] = now]
                  /\ connector_status' = [connector_status EXCEPT
                                             ![c] = SetActiveTransaction(@, n, now, tag)]
             ELSE UNCHANGED <<current_transaction, connector_status>>
          /\ txIssued' = [txIssued EXCEPT ![c][now] = IF @ = 0 THEN 1 ELSE 2]
          /\ inboundReply' = [inboundReply EXCEPT
                                 ![c] = Reply("StartTransaction", "CallResult", now, "Accepted")]
          /\ startCount' = i
          /\ startTx' = [startTx EXCEPT ![i] = now]
          /\ startSess' = [startSess EXCEPT ![i] = s]
          /\ jobs' = [jobs EXCEPT ![i] = [v \in Vendors |-> Job("sleep", "none", NoCall)]]
          /\ SendReply(s, i)
    /\ UNCHANGED <<sessVars, pending, written, dropped, replied, ignored, callVars,
                   reservations, chStatus, now, authVars, logVars, reservationsReturned, profVars, idTagHttp,
                   vendorEnabled, replyWritten, callTx, callJob, msilWarned>>

\* on_stop_transaction dispatched by the receive loop.
HandleStopTransaction(s, tx) ==
    /\ RxReady(s)
    /\ LET c == sessCp[s]
       IN /\ IF c \in dbChargers
             THEN /\ current_transaction' = [current_transaction EXCEPT ![c] = NoTx]
                  /\ connector_status' = [connector_status EXCEPT
                                             ![c] = ClearActiveTransaction(@, tx)]
             ELSE UNCHANGED <<current_transaction, connector_status>>
          /\ inboundReply' = [inboundReply EXCEPT
                                 ![c] = Reply("StopTransaction", "CallResult", NoTx, "none")]
          /\ SendReply(s, 0)
    /\ UNCHANGED <<sessVars, pending, written, dropped, replied, ignored, callVars,
                   reservations, chStatus, now, txIssued, authVars, logVars,
                   reservationsReturned, profVars, idTagHttp, vendorEnabled, startCount, startTx, startSess,
                   replyWritten, jobs, callTx, callJob, msilWarned>>

\* The serializer is free again and the waiting reply takes it.
ReplyLock(s) ==
    /\ rxPc[s] = "lockwait"
    /\ callLock[s] = NoCall
    /\ callLock' = [callLock EXCEPT ![s] = RxWriter]
    /\ inSend' = [inSend EXCEPT ![s] = @ \cup {RxWriter}]
    /\ rxPc' = [rxPc EXCEPT ![s] = "sending"]
    /\ UNCHANGED <<sessVars, pending, written, dropped, replied, ignored, callVars,
                   reservations, chStatus, current_transaction, connector_status, now,
                   txIssued, inboundReply, authVars, logVars, reservationsReturned, profVars, idTagHttp,
                   vendorEnabled, rxStart, startCount, startTx, startSess, replyWritten,
                   jobs, callTx, callJob, msilWarned>>

\* The write of the reply returns: the CALLRESULT is on the wire and the loop
\* reads the next frame.
ReplyWritten(s) ==
    /\ rxPc[s] = "sending"
    /\ callLock' = [callLock EXCEPT ![s] = NoCall]
    /\ inSend' = [inSend EXCEPT ![s] = @ \ {RxWriter}]
    /\ rxPc' = [rxPc EXCEPT ![s] = "recv"]
    /\ replyWritten' = IF rxStart[s] # 0
                       THEN [replyWritten EXCEPT ![rxStart[s]] = TRUE]
                       ELSE replyWritten
    /\ UNCHANGED <<sessVars, pending, written, dropped, replied, ignored, callVars,
                   reservations, chStatus, current_transaction, connector_status, now,
                   txIssued, inboundReply, authVars, logVars, reservationsReturned, profVars, idTagHttp,
                   vendorEnabled, rxStart, startCount, startTx, startSess, jobs, callTx,
                   callJob, msilWarned>>

\* The packets of a vendor in the order its task sends them.
VendorMessages(v) ==
    CASE v = "Jio_BP" -> <<"Stop_Energy", "Stop_Time">>
      [] v = "MSIL" -> <<"MsilDataTransfer">>
      [] v = "CZ" -> <<"CZ_AutoStop">>

\* The packets of vendor v that the stored settings enable, in that order.
EnabledMessages(v, enabled) == SelectSeq(VendorMessages(v), LAMBDA m : m \in enabled)

\* The packets that follow msg in a task.
RECURSIVE MessagesAfter(_, _)
MessagesAfter(msgs, msg) ==
    IF msgs = <<>> THEN <<>>
    ELSE IF Head(msgs) = msg THEN Tail(msgs)
    ELSE MessagesAfter(Tail(msgs), msg)

\* A task that gives up after a packet that was not accepted.
ContinuesAfterAccepted(outcome) == outcome = "Accepted"

\* _send_jio_bp_packet, _send_cz_packet and _send_msil_packet catch every
\* exception and return a boolean their caller does not look at: the task goes
\* on whatever became of the packet.
ContinuesAfter(outcome) == TRUE

\* A packet sent without a word in the log.
MsilWarnedSilent(warned, msg, k) == warned

\* _send_msil_packet writes the OCPP violation warning to the charger's log
\* before it builds the frame, for every packet.
MsilWarnedAfter(warned, msg, k) ==
    IF msg = "MsilDataTransfer" THEN warned \cup {k} ELSE warned

\* A task sends the DataTransfer msg carrying transaction id tx as call k: the
\* MSIL packet is written by self._connection.send, the others go through
\* call().
StartPacket(k, s, c, msg, tx, i) ==
    /\ callKind' = [callKind EXCEPT ![k] = msg]
    /\ callCp' = [callCp EXCEPT ![k] = c]
    /\ callSess' = [callSess EXCEPT ![k] = s]
    /\ callTx' = [callTx EXCEPT ![k] = tx]
    /\ callJob' = [callJob EXCEPT ![k] = i]
    /\ msilWarned' = MsilWarnedAfter(msilWarned, msg, k)
    /\ IF msg # "MsilDataTransfer"
       THEN /\ IF callLock[s] = NoCall
               THEN StartCall(k, s)
               ELSE /\ callPc' = [callPc EXCEPT ![k] = "lockwait"]
                    /\ UNCHANGED <<callLock, pending, inSend, dropped>>
            /\ UNCHANGED <<callOutcome, callHttp>>
       ELSE IF AdapterSendPc(s) = "returned"
       THEN /\ callPc' = [callPc EXCEPT ![k] = "done"]
            /\ callOutcome' = [callOutcome EXCEPT ![k] = "Dropped"]
            /\ callHttp' = [callHttp EXCEPT ![k] = CompletedHttp(msg, "Dropped")]
            /\ dropped' = dropped \cup {k}
            /\ UNCHANGED <<callLock, pending, inSend>>
       ELSE /\ callPc' = [callPc EXCEPT ![k] = "sending"]
            /\ inSend' = [inSend EXCEPT ![s] = @ \cup {k}]
            /\ UNCHANGED <<callOutcome, callHttp, callLock, pending, dropped>>

\* The first call record that is not in use.
FreeCall == {k \in Calls : callPc[k] = "idle" /\ \A j \in Calls : j < k => callPc[j] # "idle"}

\* The 0.5 s sleep of a task is over: _send_*_data_transfer_if_configured reads
\* the settings and the transaction that is active now, and sends the first
\* packet the settings enable. Without settings or active transaction the task
\* ends.
FireJob(i, v) ==
    /\ jobs[i][v].pc = "sleep"
    /\ LET s == startSess[i]
           c == sessCp[s]
           msgs == EnabledMessages(v, vendorEnabled[c])
           active == IF c \in dbChargers
                     THEN GetActiveTransaction(current_transaction[c], connector_status[c],
                                               chStatus[c])
                     ELSE NoActive
       IN IF msgs = <<>> \/ active = NoActive
          THEN /\ jobs' = [jobs EXCEPT ![i][v] = Job("done", "none", NoCall)]
               /\ UNCHANGED <<callLock, pending, inSend, dropped, callKind, callCp, callSess,
                              callPc, callOutcome, callHttp, callTx, callJob, msilWarned>>
          ELSE \E k \in FreeCall :
                   /\ StartPacket(k, s, c, msgs[1], active.transaction_id, i)
                   /\ jobs' = [jobs EXCEPT ![i][v] = Job("packet", msgs[1], k)]
    /\ UNCHANGED <<sessVars, written, replied, ignored, callRes, resolveCount, reservations,
                   chStatus, current_transaction, connector_status, now, txIssued,
                   inboundReply, authVars, logVars, reservationsReturned, profVars, idTagHttp, vendorEnabled,
                   rxPc, rxStart, startCount, startTx, startSess, replyWritten>>

\* The packet of a task has ended one way or another: the task sends its next
\* enabled packet with the transaction id it read when it woke up, or ends.
JobNext(i, v) ==
    /\ jobs[i][v].pc = "packet"
    /\ callPc[jobs[i][v].call] = "done"
    /\ LET s == startSess[i]
           c == sessCp[s]
           last == jobs[i][v].call
           rest == MessagesAfter(EnabledMessages(v, vendorEnabled[c]), jobs[i][v].msg)
       IN IF rest = <<>> \/ ~ContinuesAfter(callOutcome[last])
          THEN /\ jobs' = [jobs EXCEPT ![i][v] = Job("done", "none", NoCall)]
               /\ UNCHANGED <<callLock, pending, inSend, dropped, callKind, callCp, callSess,
                              callPc, callOutcome, callHttp, callTx, callJob, msilWarned>>
          ELSE \E k \in FreeCall :
                   /\ StartPacket(k, s, c, rest[1], callTx[last], i)
                   /\ jobs' = [jobs EXCEPT ![i][v] = Job("packet", rest[1], k)]
    /\ UNCHANGED <<sessVars, written, replied, ignored, callRes, resolveCount, reservations,
                   chStatus, current_transaction, connector_status, now, txIssued,
                   inboundReply, authVars, logVars, reservationsReturned, profVars, idTagHttp, vendorEnabled,
                   rxPc, rxStart, startCount, startTx, startSess, replyWritten>>

\* The settings the operator may have stored: none, both Jio-BP packets, or
\* the MSIL packet together with the CZ packet.
SettingsChoices == {{}, {"Stop_Energy", "Stop_Time"}, {"MsilDataTransfer", "CZ_AutoStop"}}

\* One charger is connected and the operator has stored its vendor settings.
InitSched ==
    /\ charge_points = [c \in Chargers |-> 1]
    /\ dbChargers = {"CP1"}
    /\ sessState = [s \in Sessions |-> IF s = 1 THEN "running" ELSE "new"]
    /\ sessCp = [s \in Sessions |-> "CP1"]
    /\ adapterClosed = [s \in Sessions |-> FALSE]
    /\ callLock = [s \in Sessions |-> NoCall]
    /\ pending = {}
    /\ inSend = [s \in Sessions |-> {}]
    /\ written = {}
    /\ dropped = {}
    /\ replied = [k \in Calls |-> "none"]
    /\ ignored = {}
    /\ callKind = [k \in Calls |-> "none"]
    /\ callCp = [k \in Calls |-> "CP1"]
    /\ callSess = [k \in Calls |-> NoSession]
    /\ callRes = [k \in Calls |-> 1]
    /\ callPc = [k \in Calls |-> "idle"]
    /\ callOutcome = [k \in Calls |-> "none"]
    /\ callHttp = [k \in Calls |-> 0]
    /\ resolveCount = [k \in Calls |-> 0]
    /\ reservations = [c \in Chargers |-> {}]
    /\ chStatus = [c \in Chargers |-> "Available"]
    /\ current_transaction = [c \in Chargers |-> NoTx]
    /\ connector_status = [c \in Chargers |-> <<>>]
    /\ now = 1
    /\ txIssued = [c \in Chargers |-> [tx \in 1..MaxTime |-> 0]]
    /\ inboundReply = [c \in Chargers |-> NoReply]
    /\ idTagTable = [t \in AuthTags |-> "absent"]
    /\ local_auth_list_version = 0
    /\ listPc = [k \in ListCalls |-> "idle"]
    /\ listVersion = [k \in ListCalls |-> 0]
    /\ listItems = [k \in ListCalls |-> <<>>]
    /\ listForce = [k \in ListCalls |-> FALSE]
    /\ listResp = [k \in ListCalls |-> "none"]
    /\ logs = [c \in Chargers |-> <<>>]
    /\ logs_cleared_at = [c \in Chargers |-> 0]
    /\ logCount = [c \in Chargers |-> 0]
    /\ logsReturned = [c \in Chargers |-> <<>>]
    /\ latest_status = [c \in Chargers |-> NoStatusLog]
    /\ clearedCount = [c \in Chargers |-> 0]
    /\ reservationsReturned = [c \in Chargers |-> NoAnswer]
    /\ vendorEnabled \in [Chargers -> SettingsChoices]
    /\ rxPc = [s \in Sessions |-> "recv"]
    /\ rxStart = [s \in Sessions |-> 0]
    /\ startCount = 0
    /\ startTx = [i \in Starts |-> NoTx]
    /\ startSess = [i \in Starts |-> NoSession]
    /\ replyWritten = [i \in Starts |-> FALSE]
    /\ jobs = [i \in Starts |-> [v \in Vendors |-> NoJob]]
    /\ callTx = [k \in Calls |-> NoTx]
    /\ callJob = [k \in Calls |-> 0]
    /\ msilWarned = {}
    /\ charging_profiles = [c \in Chargers |-> {}]
    /\ profileOps = [c \in Chargers |-> <<>>]
    /\ profilesReturned = [c \in Chargers |-> NoProfileAnswer]
    /\ idTagHttp = 0

NextSched ==
    \/ \E s \in Sessions, tag \in IdTags : HandleStartTransaction(s, 1, tag)
    \/ \E s \in Sessions, tx \in 1..MaxTime :
           txIssued[sessCp[s]][tx] > 0 /\ HandleStopTransaction(s, tx)
    \/ \E s \in Sessions : ReplyLock(s)
    \/ \E s \in Sessions : ReplyWritten(s)
    \/ \E i \in Starts, v \in Vendors : FireJob(i, v)
    \/ \E i \in Starts, v \in Vendors : JobNext(i, v)
    \/ \E k \in Calls : AcquireLock(k)
    \/ \E k \in Calls : SendComplete(k)
    \/ \E k \in Calls : SendFail(k)
    \/ \E s \in Sessions, k \in Calls, typ \in ReplyTypes : RxReady(s) /\ RecvReply(s, k, typ)
    \/ \E k \in Calls : CallTimeout(k)
    \/ startCount < MaxStarts /\ Tick

SpecSched == InitSched /\ [][NextSched]_vars

\* ------------------------------------------------------ charging profiles

\* An optional parameter that was not given (None).
NoFilter == -1

ProfileIds == 1..MaxProfileId
StackLevels == 0..MaxStackLevel
Purposes == {"TxProfile", "TxDefaultProfile"}

\* A charging profile as set_charging_profile passes it to the store, with the
\* connector it was set for.
Profile(id, n, purpose, level) ==
    [charging_profile_id |-> id, connector_id |-> n, charging_profile_purpose |-> purpose,
     stack_level |-> level]

Profiles ==
    {Profile(id, 1, purpose, level) : id \in ProfileIds, purpose \in {"TxProfile"},
                                      level \in StackLevels}

\* The parameters of a ClearChargingProfile request; "" is a purpose not given.
Filter(id, n, purpose, level) ==
    [id |-> id, connector_id |-> n, charging_profile_purpose |-> purpose, stack_level |-> level]

Filters ==
    {Filter(id, n, purpose, level) :
        id \in ProfileIds \cup {NoFilter}, n \in {1, NoFilter},
        purpose \in Purposes \cup {""}, level \in StackLevels \cup {NoFilter}}

\* profile.get('stack_level') or profile.get('stackLevel') on a profile stored
\* with snake_case keys: a stored 0 is falsy, the second key is absent, and the
\* expression is None.
StoredOr(v) == IF v = 0 THEN NoFilter ELSE v

\* The comparison of a filter value with the stored value itself.
ShouldRemoveByValue(profile, f) ==
    /\ f.connector_id # NoFilter => profile.connector_id = f.connector_id
    /\ f.id # NoFilter => profile.charging_profile_id = f.id
    /\ f.charging_profile_purpose # "" => profile.charging_profile_purpose = f.charging_profile_purpose
    /\ f.stack_level # NoFilter => profile.stack_level = f.stack_level

\* ChargerStore.clear_charging_profiles, the loop body: should_remove.
ShouldRemove(profile, f) ==
    /\ f.connector_id # NoFilter => profile.connector_id = f.connector_id
    /\ f.id # NoFilter => StoredOr(profile.charging_profile_id) = f.id
    /\ f.charging_profile_purpose # "" => profile.charging_profile_purpose = f.charging_profile_purpose
    /\ f.stack_level # NoFilter => StoredOr(profile.stack_level) = f.stack_level

\* ChargerStore.add_charging_profile: "charger.charging_profiles or {}" is read
\* inside the try block; on a class without that attribute the read raises, the
\* except branch rolls back and nothing is stored. With the attribute the
\* profile replaces the one stored under the same connector and id.
AddChargingProfile(c, rows, stored, profile) ==
    IF c \notin rows \/ "charging_profiles" \notin ChargerAttributes
    THEN stored
    ELSE {q \in stored : ~(/\ q.connector_id = profile.connector_id
                           /\ q.charging_profile_id = profile.charging_profile_id)}
             \cup {profile}

\* ChargerStore.clear_charging_profiles: same attribute read, same except
\* branch; with the attribute, the profiles for which should_remove is true are
\* deleted.
ClearChargingProfiles(c, rows, stored, f) ==
    IF c \notin rows \/ "charging_profiles" \notin ChargerAttributes
    THEN stored
    ELSE {q \in stored : ~ShouldRemove(q, f)}

\* ChargerStore.get_charging_profiles behind GET /api/charging_profiles/{id}:
\* the attribute is read outside any try block and the endpoint turns the
\* exception into a 500.
GetChargingProfiles(c, rows, stored) ==
    IF c \notin rows THEN ProfileAnswer(200, {})
    ELSE IF "charging_profiles" \notin ChargerAttributes THEN ProfileAnswer(500, {})
    ELSE ProfileAnswer(200, stored)

\* An accepted command in the order of acceptance.
ProfileOp(op, profile, f) == [op |-> op, profile |-> profile, filter |-> f]

\* set_charging_profile after "response = await self.call(request)" with an
\* Accepted response.
SetChargingProfileAccepted(c, profile) ==
    /\ charge_points[c] # NoSession
    /\ Len(profileOps[c]) < MaxProfileOps
    /\ charging_profiles' = [charging_profiles EXCEPT
                                ![c] = AddChargingProfile(c, dbChargers, @, profile)]
    /\ profileOps' = [profileOps EXCEPT
                         ![c] = Append(@, ProfileOp("set", profile, Filter(NoFilter, NoFilter, "", NoFilter)))]
    /\ UNCHANGED <<sessVars, wireVars, callVars, reservations, chStatus, current_transaction,
                   connector_status, now, txIssued, inboundReply, authVars, logVars,
                   reservationsReturned, schedVars, profilesReturned, idTagHttp>>

\* clear_charging_profile after "response = await self.call(request)" with an
\* Accepted response.
ClearChargingProfileAccepted(c, f) ==
    /\ charge_points[c] # NoSession
    /\ Len(profileOps[c]) < MaxProfileOps
    /\ charging_profiles' = [charging_profiles EXCEPT
                                ![c] = ClearChargingProfiles(c, dbChargers, @, f)]
    /\ profileOps' = [profileOps EXCEPT
                         ![c] = Append(@, ProfileOp("clear", Profile(1, 1, "TxProfile", 0), f))]
    /\ UNCHANGED <<sessVars, wireVars, callVars, reservations, chStatus, current_transaction,
                   connector_status, now, txIssued, inboundReply, authVars, logVars,
                   reservationsReturned, schedVars, profilesReturned, idTagHttp>>

\* GET /api/charging_profiles/{id}.
GetChargingProfilesCall(c) ==
    /\ profilesReturned' = [profilesReturned EXCEPT
                               ![c] = GetChargingProfiles(c, dbChargers, charging_profiles[c])]
    /\ UNCHANGED <<sessVars, wireVars, callVars, reservations, chStatus, current_transaction,
                   connector_status, now, txIssued, inboundReply, authVars, logVars,
                   reservationsReturned, schedVars, charging_profiles, profileOps,
                   idTagHttp>>

NextProfile ==
    \/ \E c \in Chargers, profile \in Profiles : SetChargingProfileAccepted(c, profile)
    \/ \E c \in Chargers, f \in Filters : ClearChargingProfileAccepted(c, f)
    \/ \E c \in Chargers : GetChargingProfilesCall(c)

SpecProfile == InitCall /\ [][NextProfile]_vars

\* ---------------------------------------------------- validated commands

\* The commands whose endpoint checks an argument before it calls the session.
ValidatedKinds == {"Reset", "TriggerMessage"}

\* The values an operator sends as Reset type or requested message.
Arguments == {"hard", "Soft", "reboot", "Heartbeat", "heartbeat", "InvalidMessage"}

\* str.lower() on the arguments above.
Lower(arg) ==
    CASE arg = "Soft" -> "soft"
      [] arg = "Heartbeat" -> "heartbeat"
      [] arg = "InvalidMessage" -> "invalidmessage"
      [] OTHER -> arg

\* valid_messages of the trigger_message endpoint.
ValidMessages ==
    {"BootNotification", "DiagnosticsStatusNotification", "FirmwareStatusNotification",
     "Heartbeat", "MeterValues", "StatusNotification"}

\* An endpoint without a check of its argument.
ValidRequestAny(kind, arg) == TRUE

\* The checks of reset_charger and trigger_message: the lower-cased type is
\* "hard" or "soft"; the requested message is one of the six names as written.
ValidRequest(kind, arg) ==
    IF kind = "Reset" THEN Lower(arg) \in {"hard", "soft"} ELSE arg \in ValidMessages

\* POST /api/send/{id}/reset and /trigger_message: 404 without a registry
\* entry, 400 for an argument that fails the check, otherwise the session's
\* method, which goes on to call().
ValidatedRequest(k, kind, c, arg) ==
    /\ callPc[k] = "idle"
    /\ \A j \in Calls : j < k => callPc[j] # "idle"
    /\ callKind' = [callKind EXCEPT ![k] = kind]
    /\ callCp' = [callCp EXCEPT ![k] = c]
    /\ IF charge_points[c] = NoSession
       THEN /\ callPc' = [callPc EXCEPT ![k] = "done"]
            /\ callOutcome' = [callOutcome EXCEPT ![k] = "NotConnected"]
            /\ callHttp' = [callHttp EXCEPT ![k] = NotConnectedHttp(kind, c, dbChargers)]
            /\ UNCHANGED <<callSess, callLock, pending, inSend, dropped>>
       ELSE IF ~ValidRequest(kind, arg)
       THEN /\ callPc' = [callPc EXCEPT ![k] = "done"]
            /\ callOutcome' = [callOutcome EXCEPT ![k] = "Invalid"]
            /\ callHttp' = [callHttp EXCEPT ![k] = 400]
            /\ UNCHANGED <<callSess, callLock, pending, inSend, dropped>>
       ELSE /\ callSess' = [callSess EXCEPT ![k] = charge_points[c]]
            /\ IF callLock[charge_points[c]] = NoCall
               THEN StartCall(k, charge_points[c])
               ELSE /\ callPc' = [callPc EXCEPT ![k] = "lockwait"]
                    /\ UNCHANGED <<callLock, pending, inSend, dropped>>
            /\ UNCHANGED <<callOutcome, callHttp>>
    /\ UNCHANGED <<sessVars, written, replied, ignored, callRes, resolveCount, reservations,
                   storeVars>>

NextValid ==
    \/ \E s \in Sessions : Disconnect(s)
    \/ \E k \in Calls, kind \in ValidatedKinds, c \in Chargers, arg \in Arguments :
           ValidatedRequest(k, kind, c, arg)
    \/ \E k \in Calls : AcquireLock(k)
    \/ \E k \in Calls : SendComplete(k)
    \/ \E k \in Calls : SendFail(k)
    \/ \E s \in Sessions, k \in Calls, typ \in ReplyTypes : RecvReply(s, k, typ)
    \/ \E k \in Calls : CallTimeout(k)

SpecValid == InitCall /\ [][NextValid]_vars

\* ================================================================ claims

\* Calls that are still in flight on session s.
InFlight(s) == {k \in Calls : callSess[k] = s /\ callPc[k] \in {"lockwait", "sending", "waiting"}}

\* C1: whenever the registry entry of a charge-point-id passes from one
\* session to another, the previous session has been closed and none of its
\* outbound calls is still pending once the new session is bound.
C1_PreviousSessionClosedFirst ==
    [][\A c \in Chargers :
          (charge_points[c] # NoSession /\ charge_points'[c] # NoSession
              /\ charge_points'[c] # charge_points[c])
          => (adapterClosed'[charge_points[c]] /\ InFlight(charge_points[c])' = {})]_vars

\* C2: when a session ends while the registry entry of its charge-point-id
\* maps to another session, the registry is left as it is.
C2_CleanupOnlyOwnEntry ==
    [][\A s \in Sessions :
          (sessState[s] = "running" /\ sessState'[s] = "ended"
              /\ charge_points[sessCp[s]] # s)
          => charge_points' = charge_points]_vars

\* C3: a charger has a registry entry if and only if it has an open session:
\* every running session is the registry entry of its id, and every registry
\* entry is a running session whose adapter is open.
C3_RegistryIffLiveSession ==
    /\ \A s \in Sessions : sessState[s] = "running" => charge_points[sessCp[s]] = s
    /\ \A c \in Chargers : charge_points[c] # NoSession =>
          (sessState[charge_points[c]] = "running" /\ ~adapterClosed[charge_points[c]])

\* C4: every uid has at most one waiter, and the waiter is resolved exactly
\* once: a uid in the pending-call table belongs to a caller that is sending
\* or waiting and has never been resolved, a waiting caller has its waiter,
\* and a call that ended by a reply or by its time-out was resolved once and
\* has left the table.
C4_WaiterResolvedOnce ==
    \A k \in Calls :
        /\ resolveCount[k] <= 1
        /\ k \in pending => (callPc[k] \in {"sending", "waiting"} /\ resolveCount[k] = 0)
        /\ callPc[k] = "waiting" => k \in pending
        /\ callOutcome[k] \in ReplyTypes \cup {"Timeout"} =>
              (resolveCount[k] = 1 /\ k \notin pending /\ callPc[k] = "done")

\* One call ended by its time-out and received a late reply, another ended by
\* its reply; each was resolved once.
C4_Witness ==
    \E j, k \in Calls :
        /\ callOutcome[j] = "Timeout" /\ replied[j] # "none" /\ resolveCount[j] = 1
        /\ callOutcome[k] = "Accepted" /\ resolveCount[k] = 1

\* C5: closing a session releases every caller that awaits a reply on it, and
\* no frame handed to a closed session is skipped without an error.
C5_CloseCancelsCalls ==
    /\ \A k \in Calls : callPc[k] = "waiting" => ~adapterClosed[callSess[k]]
    /\ dropped = {}

\* C6: a reply that arrives for a call that has timed out changes nothing the
\* operator or another caller can observe: no call changes state, outcome or
\* HTTP answer, no waiter is resolved, no reservation is stored or removed;
\* the reply is only recorded as discarded.
C6_LateReplyNoEffect ==
    [][\A k \in Calls :
          (callOutcome[k] = "Timeout" /\ replied[k] = "none" /\ replied'[k] # "none")
          => (/\ callVars' = callVars
              /\ reservations' = reservations
              /\ pending' = pending
              /\ k \in ignored')]_vars

\* A ReserveNow timed out, the charger's late Accepted was discarded, and
\* another caller was waiting for its own reply at that time.
C6_Witness ==
    \E j, k \in Calls :
        /\ j # k
        /\ callKind[k] = "ReserveNow" /\ callOutcome[k] = "Timeout"
        /\ replied[k] = "Accepted" /\ k \in ignored
        /\ callPc[j] = "waiting" /\ replied[j] = "none"

\* C7: every task that writes a frame on a session holds that session's send
\* serializer, so at most one frame is being written at a time.
C7_SingleWriter ==
    \A s \in Sessions : \A k \in inSend[s] : callLock[s] = k

\* C8: a command for a charger without a registry entry is answered with a
\* 4xx status, writes no frame and leaves nothing queued.
C8_NotConnectedIs4xx ==
    \A k \in Calls : callOutcome[k] = "NotConnected" =>
        /\ callHttp[k] \in 400..499
        /\ callPc[k] = "done"
        /\ k \notin written /\ k \notin pending /\ k \notin dropped

\* C9: a command that failed (time-out, send failure, CALLERROR) is answered
\* with an error status, never with a success.
C9_FailureSurfaces ==
    \A k \in Calls : callOutcome[k] \in {"Timeout", "SendFailure", "CallError"} =>
        callHttp[k] >= 400

\* C10: whenever current_transaction of a charger is set to T, some entry of
\* its connector_status carries transaction_id T.
C10_CurrentTransactionHasEntry ==
    \A c \in Chargers : current_transaction[c] # NoTx =>
        \E i \in 1..Len(connector_status[c]) :
            connector_status[c][i].transaction_id = current_transaction[c]

\* A transaction is current, and a StatusNotification with another status has
\* been handled since it started.
C10_Witness ==
    \E c \in Chargers :
        /\ current_transaction[c] # NoTx
        /\ chStatus[c] = "Charging"
        /\ \E i \in 1..Len(connector_status[c]) :
              /\ connector_status[c][i].transaction_id = current_transaction[c]
              /\ connector_status[c][i].status = "Preparing"

\* C11: current_transaction of a charger is null if and only if no entry of
\* its connector_status carries a transaction_id.
C11_NullIffNoEntryCarriesId ==
    \A c \in Chargers :
        (current_transaction[c] = NoTx) <=>
            (\A i \in 1..Len(connector_status[c]) :
                 connector_status[c][i].transaction_id = NoTx)

\* C12: a StopTransaction whose transaction id is not current_transaction
\* leaves current_transaction and every connector entry as they are, and is
\* answered with a CALLRESULT.
C12_UnmatchedStopClearsNothing ==
    [][\A c \in Chargers, tx \in 1..MaxTime :
          (StopTransaction(c, tx) /\ tx # current_transaction[c])
          => (/\ current_transaction'[c] = current_transaction[c]
              /\ connector_status'[c] = connector_status[c]
              /\ inboundReply'[c].kind = "CallResult")]_vars

\* C14: every transaction id StartTransaction returns is positive and is
\* returned once only during the life of the charger.
C14_TransactionIdsUnique ==
    \A c \in Chargers :
        /\ \A tx \in 1..MaxTime : txIssued[c][tx] <= 1
        /\ inboundReply[c].action = "StartTransaction" => inboundReply[c].transaction_id > 0

\* The first entry of cs that carries transaction id tx (0 when there is none).
FirstCarrying(cs, tx) ==
    IF \E i \in 1..Len(cs) : cs[i].transaction_id = tx
    THEN CHOOSE i \in 1..Len(cs) :
             cs[i].transaction_id = tx /\ \A j \in 1..i - 1 : cs[j].transaction_id # tx
    ELSE 0

\* C13: a StopTransaction whose id is current_transaction clears, in one step,
\* current_transaction and the transaction fields of the connector entry that
\* carried the id; the state a reader sees next has both cleared, and
\* get_active_transaction reports no active transaction.
C13_MatchingStopClearsBoth ==
    [][\A c \in Chargers, tx \in 1..MaxTime :
          (StopTransaction(c, tx) /\ c \in dbChargers /\ tx = current_transaction[c])
          => (/\ current_transaction'[c] = NoTx
              /\ FirstCarrying(connector_status[c], tx) # 0
              /\ connector_status'[c][FirstCarrying(connector_status[c], tx)].transaction_id = NoTx
              /\ connector_status'[c][FirstCarrying(connector_status[c], tx)].id_tag = "none"
              /\ GetActiveTransaction(current_transaction'[c], connector_status'[c],
                                      chStatus'[c]) = NoActive)]_vars

\* A transaction was started and stopped: the only entry has lost its
\* transaction fields and current_transaction is null.
C13_Witness ==
    \E c \in Chargers :
        /\ inboundReply[c].action = "StopTransaction"
        /\ current_transaction[c] = NoTx
        /\ Len(connector_status[c]) = 1
        /\ connector_status[c][1].status = "Preparing"
        /\ connector_status[c][1].transaction_id = NoTx

\* C15: Authorize answers Accepted exactly when the tag has a row whose stored
\* status is Accepted; for every other tag (no row, Blocked, Expired, ...) it
\* answers Invalid.
C15_AuthorizeAcceptsOnlyAcceptedTags ==
    [][\A c \in Chargers, tag \in AuthTags :
          Authorize(c, tag)
          => /\ inboundReply'[c].kind = "CallResult"
             /\ (inboundReply'[c].status = "Accepted") <=> (idTagTable[tag] = "Accepted")
             /\ (idTagTable[tag] # "Accepted") => (inboundReply'[c].status = "Invalid")]_vars

\* An Authorize was answered Accepted and the table holds an accepted tag next
\* to a tag without a row.
C15_Witness ==
    \E c \in Chargers :
        /\ inboundReply[c].action = "Authorize"
        /\ inboundReply[c].status = "Accepted"
        /\ idTagTable["TAG1"] = "Accepted"
        /\ idTagTable[LongTag] = "absent"

\* C16: no inbound handler adds, changes or removes a row of the id-tag table.
C16_InboundHandlersKeepIdTags ==
    [][(\/ \E c \in Chargers, tag \in AuthTags : Authorize(c, tag)
        \/ \E c \in Chargers, n \in Connectors, tag \in IdTags : StartTransaction(c, n, tag)
        \/ \E c \in Chargers, tx \in 1..MaxTime : StopTransaction(c, tx)
        \/ \E c \in Chargers, n \in Connectors, status \in Statuses :
               StatusNotification(c, n, status))
       => idTagTable' = idTagTable]_vars

\* An Authorize was refused and the table still has no row at all.
C16_Witness ==
    \E c \in Chargers :
        /\ inboundReply[c].action = "Authorize"
        /\ inboundReply[c].status = "Invalid"
        /\ \A tag \in AuthTags : idTagTable[tag] = "absent"

C18_AcceptedListMirrored ==
    [][\A k \in ListCalls :
          SendLocalListResponse(k, "Accepted")
          => \A i \in 1..Len(listItems[k]) :
                 /\ idTagTable'[listItems[k][i].tag] # "absent"
                 /\ listItems[k][i].status # "none"
                    => idTagTable'[listItems[k][i].tag] = listItems[k][i].status]_vars

\* C19: clear_logs deletes nothing, and a get_logs after it returns only
\* entries whose timestamp is strictly greater than the clear time.
C19_ClearedLogsHidden ==
    [][\A c \in Chargers :
          /\ ClearLogs(c) => logs'[c] = logs[c]
          /\ (GetLogsCall(c) /\ c \in dbChargers /\ logs_cleared_at[c] # 0)
             => /\ \A i \in 1..Len(logsReturned'[c]) :
                       logsReturned'[c][i].timestamp > logs_cleared_at[c]
                /\ logs'[c] = logs[c]]_vars

\* After a clear the stored list holds an entry written at the clear time and
\* a later one, and get_logs returned the later one only.
C19_Witness ==
    \E c \in Chargers :
        /\ logs_cleared_at[c] # 0
        /\ \E i \in 1..Len(logs[c]) : logs[c][i].timestamp = logs_cleared_at[c]
        /\ Len(logsReturned[c]) = 1
        /\ logsReturned[c][1].timestamp > logs_cleared_at[c]
        /\ logsReturned[c][1] = logs[c][Len(logs[c])]

\* C20: the stored log list never has more than N_LOG entries and always is
\* the most recent entries in the order they were added.
C20_LogCapKeepsNewest ==
    \A c \in Chargers :
        /\ Len(logs[c]) <= N_LOG
        /\ Len(logs[c]) = IF logCount[c] < N_LOG THEN logCount[c] ELSE N_LOG
        /\ \A i \in 1..Len(logs[c]) : logs[c][i].message = logCount[c] - Len(logs[c]) + i

\* More entries were added than the cap allows and the oldest are gone.
C20_Witness ==
    \E c \in Chargers :
        /\ logCount[c] > N_LOG
        /\ Len(logs[c]) = N_LOG
        /\ logs[c][1].message = logCount[c] - N_LOG + 1

C22_ReserveCancelRoundTrip ==
    [][\A c \in Chargers, r \in ResIds :
          GetReservationsCall(c)
          => LET accepted(kind) ==
                     \E k \in Calls : /\ callKind[k] = kind /\ callCp[k] = c /\ callRes[k] = r
                                      /\ callOutcome[k] = "Accepted"
                 returned == {res.reservation_id : res \in reservationsReturned'[c].reservations}
             IN /\ (c \in dbChargers /\ accepted("ReserveNow") /\ ~accepted("CancelReservation"))
                   => r \in returned
                /\ (accepted("CancelReservation") /\ ~accepted("ReserveNow"))
                   => r \notin returned]_vars

\* C23: a post-transaction DataTransfer frame is written to the wire only after
\* the CALLRESULT of the StartTransaction that created its task has been
\* written, and only when a vendor setting is enabled for the charger.
C23_PacketAfterStartReply ==
    [][\A k \in Calls :
          (SendComplete(k) /\ callJob[k] # 0)
              => /\ replyWritten[callJob[k]]
                 /\ vendorEnabled[callCp[k]] # {}]_vars

\* C24: a finished post-transaction task has sent exactly one packet for each
\* enabled setting of its vendor, and each packet carries the transaction id
\* returned by the StartTransaction that created the task, whatever arrived
\* during the delay.
C24_OnePacketPerSettingWithStartId ==
    \A i \in Starts, v \in Vendors :
        jobs[i][v].pc = "done"
            => LET msgs == EnabledMessages(v, vendorEnabled[sessCp[startSess[i]]])
               IN \A n \in 1..Len(msgs) :
                      /\ Cardinality({k \in Calls : callJob[k] = i /\ callKind[k] = msgs[n]}) = 1
                      /\ \A k \in Calls :
                             (callJob[k] = i /\ callKind[k] = msgs[n]) => callTx[k] = startTx[i]

\* The ways a packet ends without having been accepted.
FailedOutcomes == {"SendFailure", "Rejected", "CallError", "Timeout"}

\* C25: the post-transaction tasks are independent. A task whose packet has
\* ended, accepted or not, sends its next enabled packet; a task that wakes up
\* with an enabled packet and an active transaction sends it whatever became of
\* the packets of the other tasks; and the end of a packet leaves the recorded
\* transaction state as it was.
C25_JobsIndependent ==
    [][/\ \A i \in Starts, v \in Vendors :
             LET c == sessCp[startSess[i]]
                 msgs == EnabledMessages(v, vendorEnabled[c])
                 rest == MessagesAfter(msgs, jobs[i][v].msg)
                 active == GetActiveTransaction(current_transaction[c], connector_status[c],
                                                chStatus[c])
             IN /\ (JobNext(i, v) /\ rest # <<>>)
                       => jobs'[i][v].pc = "packet" /\ jobs'[i][v].msg = rest[1]
                /\ (FireJob(i, v) /\ msgs # <<>> /\ active # NoActive)
                       => jobs'[i][v].pc = "packet" /\ jobs'[i][v].msg = msgs[1]
       /\ \A k \in Calls :
             (callJob[k] # 0 /\ callPc[k] # "done" /\ callPc'[k] = "done")
                 => UNCHANGED <<current_transaction, connector_status, jobs, sessState>>]_vars

\* A Stop_Energy packet has failed and the Stop_Time packet of the same task
\* has been written all the same.
C25_Witness ==
    \E k1, k2 \in Calls :
        /\ callKind[k1] = "Stop_Energy" /\ callJob[k1] # 0
        /\ callOutcome[k1] \in FailedOutcomes
        /\ callKind[k2] = "Stop_Time" /\ callJob[k2] = callJob[k1]
        /\ k2 \in written

\* C26: the MSIL task writes its object-shaped DataTransfer frame itself and
\* counts it as sent. When the charger answers that frame with a CALLERROR, the
\* violation has been logged, the packet stays counted as sent, and the reply
\* changes no task, no session and no pending call.
C26_MsilErrorReplyAccepted ==
    [][\A s \in Sessions, k \in Calls :
          (/\ RecvReply(s, k, "CallError")
           /\ callKind[k] = "MsilDataTransfer"
           /\ callJob[k] # 0
           /\ callOutcome[k] = "Sent")
              => /\ k \in msilWarned
                 /\ callOutcome'[k] = "Sent"
                 /\ UNCHANGED <<pending, callPc, callOutcome, resolveCount, jobs, sessState,
                                charge_points>>]_vars

\* The charger has answered the MSIL frame with a CALLERROR while the CZ packet
\* was waiting for its reply.
C26_Witness ==
    \E k \in Calls :
        /\ callKind[k] = "MsilDataTransfer" /\ callJob[k] # 0
        /\ callOutcome[k] = "Sent"
        /\ replied[k] = "CallError"
        /\ k \in ignored
        /\ \E j \in pending : j # k /\ callPc[j] = "waiting"

\* C30: the inbound CALLs of a session are handled one after the other. When a
\* handler runs, no reply of that session is waiting or being written, the reply
\* of every earlier StartTransaction of the session is on the wire, and a
\* StopTransaction that follows a StartTransaction finds the transaction that
\* StartTransaction stored.
C30_InboundSequential ==
    [][\A s \in Sessions :
          LET c == sessCp[s]
              start == \E n \in Connectors, tag \in IdTags : HandleStartTransaction(s, n, tag)
              stop == \E tx \in 1..MaxTime : HandleStopTransaction(s, tx)
          IN /\ (start \/ stop)
                    => /\ rxPc[s] = "recv"
                       /\ RxWriter \notin inSend[s]
                       /\ callLock[s] # RxWriter
                       /\ \A i \in 1..startCount : startSess[i] = s => replyWritten[i]
             /\ (stop /\ rxStart[s] # 0 /\ c \in dbChargers)
                    => /\ current_transaction[c] = startTx[rxStart[s]]
                       /\ current_transaction'[c] = NoTx]_vars

\* A StopTransaction has been handled after a StartTransaction whose reply was
\* written.
C30_Witness ==
    \E s \in Sessions :
        /\ startCount > 0 /\ startSess[startCount] = s
        /\ replyWritten[startCount]
        /\ inboundReply[sessCp[s]].action = "StopTransaction"
        /\ rxPc[s] = "recv"

\* The profiles a charger holds after the accepted commands ops, when set
\* stores its profile under connector and id and clear removes the profiles
\* that match all the given filters.
RECURSIVE ProfilesAfter(_)
ProfilesAfter(ops) ==
    IF ops = <<>> THEN {}
    ELSE LET before == ProfilesAfter(SubSeq(ops, 1, Len(ops) - 1))
             last == ops[Len(ops)]
         IN IF last.op = "set"
            THEN {q \in before : ~(/\ q.connector_id = last.profile.connector_id
                                   /\ q.charging_profile_id = last.profile.charging_profile_id)}
                     \cup {last.profile}
            ELSE {q \in before : ~ShouldRemoveByValue(q, last.filter)}

C28_InvalidRejectedAtBoundary ==
    [][\A k \in Calls, c \in Chargers, arg \in Arguments :
          /\ (ValidatedRequest(k, "Reset", c, arg) /\ arg \notin {"hard", "Hard", "soft", "Soft"})
                 => /\ callHttp'[k] \in 400..499
                    /\ UNCHANGED <<sessVars, wireVars, reservations, storeVars>>
          /\ (ValidatedRequest(k, "TriggerMessage", c, arg) /\ arg \notin ValidMessages)
                 => /\ callHttp'[k] \in 400..499
                    /\ UNCHANGED <<sessVars, wireVars, reservations, storeVars>>]_vars

\* A Reset with an unknown type and a TriggerMessage with an unknown message
\* have been refused for a connected charger.
C28_Witness ==
    \E k1, k2 \in Calls :
        /\ callKind[k1] = "Reset" /\ callOutcome[k1] = "Invalid" /\ callHttp[k1] = 400
        /\ callKind[k2] = "TriggerMessage" /\ callOutcome[k2] = "Invalid" /\ callHttp[k2] = 400

\* C29: the id-tag endpoints round-trip. After a tag is added the list holds it
\* with the given status, once, whether or not it was there before; after it is
\* deleted the list no longer holds it; deleting a tag that is not in the table
\* answers 404 and leaves the table as it was.
C29_IdTagRoundTrip ==
    [][\A tag \in AuthTags :
          /\ \A status \in TagStatuses :
                 (AddIdTag(tag, status) /\ idTagHttp' = 200)
                     => /\ tag \in DOMAIN GetIdTags(idTagTable')
                        /\ GetIdTags(idTagTable')[tag] = status
                        /\ DOMAIN GetIdTags(idTagTable') = DOMAIN GetIdTags(idTagTable) \cup {tag}
                        /\ \A other \in DOMAIN GetIdTags(idTagTable) \ {tag} :
                               GetIdTags(idTagTable')[other] = GetIdTags(idTagTable)[other]
          /\ DeleteIdTag(tag)
                 => /\ tag \notin DOMAIN GetIdTags(idTagTable')
                    /\ IF tag \in DOMAIN GetIdTags(idTagTable)
                       THEN idTagHttp' = 200
                       ELSE idTagHttp' = 404 /\ idTagTable' = idTagTable]_vars

\* A tag has been added with status Blocked and is listed; the delete of
\* another tag, which has no row, was answered 404.
C29_Witness ==
    /\ idTagHttp = 404
    /\ GetIdTags(idTagTable) = [tag \in {"TAG1"} |-> "Blocked"]

\* C31: a StartTransaction on a charger whose current_transaction is set
\* records the new transaction next to the old one: the connector entry that
\* carried the first transaction still carries its id and id tag afterwards,
\* on whichever connector the second one starts.
C31_SecondStartKeepsFirst ==
    [][\A c \in Chargers, n \in Connectors, tag \in IdTags :
          (/\ StartTransaction(c, n, tag)
           /\ c \in dbChargers
           /\ current_transaction[c] # NoTx)
              => \A i \in 1..Len(connector_status[c]) :
                     connector_status[c][i].transaction_id = current_transaction[c]
                         => \E j \in 1..Len(connector_status'[c]) :
                                /\ connector_status'[c][j].connector = connector_status[c][i].connector
                                /\ connector_status'[c][j].transaction_id = current_transaction[c]
                                /\ connector_status'[c][j].id_tag = connector_status[c][i].id_tag]_vars

\* The status stored for connector n, "none" without an entry.
StatusOfConnector(cs, n) ==
    IF \E i \in 1..Len(cs) : cs[i].connector = n
    THEN (CHOOSE e \in {cs[i] : i \in 1..Len(cs)} : e.connector = n).status
    ELSE "none"

\* C32: the stored status of a connector is Preparing after a StartTransaction
\* on it, Finishing after the StopTransaction of the transaction it carries,
\* and the reported status after a StatusNotification for it.
C32_ImplicitConnectorStatus ==
    [][\A c \in Chargers :
          c \in dbChargers =>
              /\ \A n \in Connectors, tag \in IdTags :
                     StartTransaction(c, n, tag)
                         => StatusOfConnector(connector_status'[c], n) = "Preparing"
              /\ \A tx \in 1..MaxTime, n \in Connectors :
                     (/\ StopTransaction(c, tx)
                      /\ \E i \in 1..Len(connector_status[c]) :
                             /\ connector_status[c][i].connector = n
                             /\ connector_status[c][i].transaction_id = tx)
                         => StatusOfConnector(connector_status'[c], n) = "Finishing"
              /\ \A n \in Connectors, status \in Statuses :
                     StatusNotification(c, n, status)
                         => StatusOfConnector(connector_status'[c], n) = status]_vars

C34_StorageErrorKeepsSession ==
    [][\A s \in Sessions :
          (RecvStorageError(s) \/ \E status \in Statuses : HandlerStorageError(s, status))
              => /\ sessState'[s] = "running"
                 /\ charge_points' = charge_points
                 /\ adapterClosed' = adapterClosed]_vars

\* C35: binding a session, unbinding one and a BootNotification leave the
\* stored status of a charger that has a row, and a step that changes the
\* stored status of a charger whose row stays is a StatusNotification.
C35_OnlyStatusNotificationSetsStatus ==
    [][\A c \in Chargers :
          (c \in dbChargers /\ c \in dbChargers')
              => /\ ((\E s \in Sessions : Connect(s, c) \/ Disconnect(s)) \/ BootNotification(c))
                        => chStatus'[c] = chStatus[c]
                 /\ chStatus'[c] # chStatus[c]
                        => \E n \in Connectors, status \in Statuses :
                               StatusNotification(c, n, status)]_vars

\* C39: reading the list of chargers leaves every stored status as it was.
C39_GetChargersReadOnly ==
    [][GetChargers => chStatus' = chStatus]_vars

\* C36: the send serializer of a session is held only by a command whose
\* frame write is in progress, never by one that awaits its reply; a command
\* queued for the serializer waits for a write, not for a reply or a time-out.
C36_SerializerHeldForOneWrite ==
    \A s \in Sessions :
        callLock[s] # NoCall
            => /\ callPc[callLock[s]] = "sending"
               /\ callLock[s] \in inSend[s]

\* Two typed commands of one session have both written their CALL frame and
\* both await their reply.
C36_Witness ==
    \E k1, k2 \in Calls :
        /\ k1 # k2
        /\ callSess[k1] = callSess[k2]
        /\ callKind[k1] \in TypedKinds /\ callKind[k2] \in TypedKinds
        /\ callPc[k1] = "waiting" /\ callPc[k2] = "waiting"
        /\ {k1, k2} \subseteq written
        /\ replied[k1] = "none" /\ replied[k2] = "none"

\* C37: a SendLocalList the charger did not answer with Accepted (another
\* status, or no answer at all) leaves the id-tag table as it was.
C37_RefusedListLeavesTable ==
    [][\A k \in ListCalls, resp \in ListResponses :
          (SendLocalListResponse(k, resp) /\ resp # "Accepted")
              => idTagTable' = idTagTable]_vars

\* C40: every tag the id-tag table holds has at most 20 characters.
C40_StoredTagsAtMost20 ==
    \A tag \in AuthTags : idTagTable[tag] # "absent" => TagLength(tag) <= 20

\* A list with a tag of 21 characters was sent with force_store_locally, the
\* charger refused it, and a list with a short tag was stored.
C40_Witness ==
    /\ \E k \in ListCalls :
           /\ listPc[k] = "done"
           /\ listItems[k] = <<Item("idTag", LongTag, "Accepted")>>
           /\ listForce[k]
           /\ listResp[k] = "Failed"
    /\ idTagTable["TAG1"] # "absent"
    /\ idTagTable[LongTag] = "absent"

\* C38: get_logs returns every entry of the stored list that was appended
\* after the last clear_logs, whatever the clock read at the append.
C38_EntriesAfterClearReturned ==
    [][\A c \in Chargers :
          (GetLogsCall(c) /\ c \in dbChargers /\ logs_cleared_at[c] # 0)
              => \A i \in 1..Len(logs[c]) :
                     logs[c][i].message > clearedCount[c]
                         => \E j \in 1..Len(logsReturned'[c]) :
                                logsReturned'[c][j] = logs[c][i]]_vars

====
